---- MODULE Spec2Model ----
(***************************************************************************)
(* Model of the questfile package (src/questfile/quest_file.go): the A3    *)
(* quest file codec.  A caller builds a QuestFile q, Write encodes it into *)
(* a sink, a reader is opened over the produced bytes (possibly cut short  *)
(* or followed by extra bytes), Read decodes it, and a successful result   *)
(* is encoded a second time.  One action is one I/O call of Read or Write  *)
(* together with the local computation that follows it.                    *)
(*                                                                         *)
(* Byte offsets of the source are 0-based; sequences here are 1-based, so  *)
(* offset o of a block is element o + 1.  A uint32 is kept as two 16-bit   *)
(* halves [lo, hi] (value = hi * 65536 + lo) because the model checker's   *)
(* integers are 32-bit signed.                                             *)
(***************************************************************************)
EXTENDS Integers, Sequences, FiniteSets, TLC

\* ------------------------------------------------------------------------
\* Format constants (quest_file.go, const blocks)
\* ------------------------------------------------------------------------
HeaderSize == 96
ObjectiveBlockSize == 96
NumObjectives == 7
ContinuationSize == 12
MinFileSize == HeaderSize + NumObjectives * ObjectiveBlockSize + ContinuationSize

TypeKILL == 0
TypeQUESTITEM == 1
TypeBRINGNPC == 2
TypeDROP == 3
TypeFIND == 4
TypeUnused == 255

\* Offset of the name-length byte in an objective block (Block[92]).
NameLenOffset == 92

UnusedRewardItemCode == 65535
UnusedContinuation == [lo |-> 65535, hi |-> 65535]

\* Error values.  ErrFault stands for any error of the underlying reader
\* other than io.EOF (a network timeout, a closed file, ...).
ErrNil == "nil"
ErrEOF == "io.EOF"
ErrUnexpectedEOF == "io.ErrUnexpectedEOF"
ErrInvalidObjectiveType == "ErrInvalidObjectiveType"
ErrNameLengthForType == "ErrNameLengthForType"
ErrTrailingBytes == "ErrTrailingBytes"
ErrShortWrite == "short write"
ErrFault == "fault"

\* ------------------------------------------------------------------------
\* Bounds of the model
\* ------------------------------------------------------------------------
\* Longest objective name enumerated exhaustively (255 is added as the extreme).
MaxNameLen == 2
\* Largest number of bytes appended after an encoded file.
MaxExtra == 2

Byte == 0..255
Min(a, b) == IF a < b THEN a ELSE b

\* ------------------------------------------------------------------------
\* encoding/binary, little-endian
\* ------------------------------------------------------------------------
\* b[off .. off+n-1] with the source's 0-based offsets.
Sub(b, off, n) == SubSeq(b, off + 1, off + n)

Zeros(n) == [k \in 1..n |-> 0]

LEUint16(b) == b[1] + 256 * b[2]
PutLEUint16(v) == <<v % 256, (v \div 256) % 256>>

\* Variant: the four bytes taken most significant first.
LEUint32BigEndian(b) ==
  [lo |-> b[4] + 256 * b[3], hi |-> b[2] + 256 * b[1]]
LEUint32(b) == [lo |-> LEUint16(Sub(b, 0, 2)), hi |-> LEUint16(Sub(b, 2, 2))]
\* Variant: the four bytes emitted most significant first.
PutBEUint32(v) ==
  <<(v.hi \div 256) % 256, v.hi % 256, (v.lo \div 256) % 256, v.lo % 256>>
PutLEUint32(v) == PutLEUint16(v.lo) \o PutLEUint16(v.hi)

\* binary.Read(r, LittleEndian, &q.Header): the 96 bytes into the struct's
\* fields in declaration order.
DecodeHeader(b) ==
  [ QuestIDRaw     |-> Sub(b, 0, 4),
    GivenNPCRaw    |-> Sub(b, 4, 4),
    TargetNPCBlock |-> Sub(b, 8, 24),
    MinLevel       |-> b[33],
    MinLevelPad    |-> Sub(b, 33, 3),
    MaxLevel       |-> b[37],
    MaxLevelPad    |-> Sub(b, 37, 3),
    QuestFlags     |-> LEUint32(Sub(b, 40, 4)),
    RewardSlot1    |-> Sub(b, 44, 4),
    RewardSlot2    |-> Sub(b, 48, 4),
    RewardSlot3    |-> Sub(b, 52, 4),
    RewardSlot4Pad |-> Sub(b, 56, 4),
    RewardAreaPad  |-> Sub(b, 60, 8),
    Count1         |-> b[69],
    Count1Pad      |-> Sub(b, 69, 3),
    Count2         |-> b[73],
    Count2Pad      |-> Sub(b, 73, 3),
    Count3         |-> b[77],
    Count3Pad      |-> Sub(b, 77, 3),
    EXP            |-> LEUint32(Sub(b, 80, 4)),
    Woonz          |-> LEUint32(Sub(b, 84, 4)),
    Lore           |-> LEUint32(Sub(b, 88, 4)),
    HeaderTail     |-> Sub(b, 92, 4) ]

\* binary.Write(w, LittleEndian, &q.Header): the fields in declaration order.
EncodeHeader(h) ==
  h.QuestIDRaw \o h.GivenNPCRaw \o h.TargetNPCBlock
    \o <<h.MinLevel>> \o h.MinLevelPad
    \o <<h.MaxLevel>> \o h.MaxLevelPad
    \o PutLEUint32(h.QuestFlags)
    \o h.RewardSlot1 \o h.RewardSlot2 \o h.RewardSlot3 \o h.RewardSlot4Pad
    \o h.RewardAreaPad
    \o <<h.Count1>> \o h.Count1Pad
    \o <<h.Count2>> \o h.Count2Pad
    \o <<h.Count3>> \o h.Count3Pad
    \o PutLEUint32(h.EXP) \o PutLEUint32(h.Woonz) \o PutLEUint32(h.Lore)
    \o h.HeaderTail

\* Variant: the three continuation values emitted most significant byte first.
EncodeContinuationBigEndian(c) == PutBEUint32(c[1]) \o PutBEUint32(c[2]) \o PutBEUint32(c[3])
\* binary.Write(w, LittleEndian, &q.Continuation): three uint32, 12 bytes.
EncodeContinuation(c) == PutLEUint32(c[1]) \o PutLEUint32(c[2]) \o PutLEUint32(c[3])

\* ------------------------------------------------------------------------
\* Data model
\* ------------------------------------------------------------------------
\* A Go byte slice: nil, or a (possibly empty) allocated slice.
NilSlice == [set |-> FALSE, bytes |-> <<>>]
Slice(b) == [set |-> TRUE, bytes |-> b]
\* len(o.Name)
NameLen(o) == Len(o.Name.bytes)

\* ObjectiveType / NameLength / IsUnused accessors.
ObjectiveType(o) == o.Block[1]
NameLength(o) == o.Block[NameLenOffset + 1]
IsUnused(o) == o.Block[1] = TypeUnused

\* The zero value QuestFile{} (also the initial value of `var q QuestFile`).
ZeroQuestFile ==
  [ Header       |-> DecodeHeader(Zeros(HeaderSize)),
    Objectives   |-> [i \in 1..NumObjectives |->
                        [Block |-> Zeros(ObjectiveBlockSize), Name |-> NilSlice]],
    Continuation |-> <<[lo |-> 0, hi |-> 0], [lo |-> 0, hi |-> 0], [lo |-> 0, hi |-> 0]>> ]

\* ------------------------------------------------------------------------
\* QuestFile values handed to Write (valid and invalid ones: Write does not
\* validate, so every stream Read is given here is produced by Write)
\* ------------------------------------------------------------------------
\* minimalValidQuestFile() of the tests, with the non-zero padding the
\* round-trip tests put into it.
HeaderMinimal ==
  [ QuestIDRaw     |-> <<1, 0, 171, 205>>,
    GivenNPCRaw    |-> <<100, 0, 0, 0>>,
    TargetNPCBlock |-> Zeros(24),
    MinLevel       |-> 10,
    MinLevelPad    |-> <<1, 2, 3>>,
    MaxLevel       |-> 50,
    MaxLevelPad    |-> <<0, 0, 0>>,
    QuestFlags     |-> [lo |-> 0, hi |-> 0],
    RewardSlot1    |-> <<255, 255, 0, 0>>,
    RewardSlot2    |-> <<255, 255, 0, 0>>,
    RewardSlot3    |-> <<255, 255, 0, 0>>,
    RewardSlot4Pad |-> <<0, 0, 0, 0>>,
    RewardAreaPad  |-> <<16, 32, 48, 64, 80, 96, 112, 128>>,
    Count1         |-> 0,
    Count1Pad      |-> <<0, 0, 0>>,
    Count2         |-> 0,
    Count2Pad      |-> <<0, 0, 0>>,
    Count3         |-> 0,
    Count3Pad      |-> <<0, 0, 0>>,
    EXP            |-> [lo |-> 1000, hi |-> 0],
    Woonz          |-> [lo |-> 500, hi |-> 0],
    Lore           |-> [lo |-> 100, hi |-> 0],
    HeaderTail     |-> <<0, 0, 0, 0>> ]

\* A header with a different value in every byte position, MinLevel above
\* MaxLevel and a sentinel-valued uint32.
HeaderDense ==
  [ QuestIDRaw     |-> <<52, 18, 171, 205>>,
    GivenNPCRaw    |-> <<120, 86, 239, 190>>,
    TargetNPCBlock |-> [k \in 1..24 |-> 100 + k],
    MinLevel       |-> 200,
    MinLevelPad    |-> <<1, 2, 3>>,
    MaxLevel       |-> 3,
    MaxLevelPad    |-> <<4, 5, 6>>,
    QuestFlags     |-> [lo |-> 513, hi |-> 1027],
    RewardSlot1    |-> <<255, 255, 7, 8>>,
    RewardSlot2    |-> <<9, 10, 11, 12>>,
    RewardSlot3    |-> <<13, 14, 15, 16>>,
    RewardSlot4Pad |-> <<17, 18, 19, 20>>,
    RewardAreaPad  |-> <<16, 32, 48, 64, 80, 96, 112, 128>>,
    Count1         |-> 21,
    Count1Pad      |-> <<22, 23, 24>>,
    Count2         |-> 25,
    Count2Pad      |-> <<26, 27, 28>>,
    Count3         |-> 29,
    Count3Pad      |-> <<30, 31, 32>>,
    EXP            |-> [lo |-> 65535, hi |-> 65535],
    Woonz          |-> [lo |-> 40000, hi |-> 513],
    Lore           |-> [lo |-> 258, hi |-> 60000],
    HeaderTail     |-> <<33, 34, 35, 36>> ]

ContinuationUnused == <<UnusedContinuation, UnusedContinuation, UnusedContinuation>>
ContinuationMixed == <<[lo |-> 513, hi |-> 1027], UnusedContinuation, [lo |-> 0, hi |-> 0]>>

\* One objective slot: type byte t, name-length byte l, and a Name of n bytes
\* (n = -1: nil).  Every other block byte and every name byte depends on the
\* slot and the position, so that a moved or dropped byte is visible.
Obj(i, t, l, n) ==
  [ Block |-> [k \in 1..ObjectiveBlockSize |->
                 IF k = 1 THEN t
                 ELSE IF k = NameLenOffset + 1 THEN l
                 ELSE (16 * i + 3 * k) % 256],
    Name  |-> IF n < 0 THEN NilSlice
              ELSE Slice([k \in 1..n |-> (64 + 8 * i + k) % 256]) ]

TypeBytes == {TypeKILL, TypeQUESTITEM, TypeBRINGNPC, TypeDROP, TypeFIND, 5, 254, TypeUnused}
ValidTypes == {TypeKILL, TypeQUESTITEM, TypeBRINGNPC, TypeDROP, TypeFIND, TypeUnused}
NamedTypes == {TypeDROP, TypeFIND}

\* Slot settings [t, l, n]: name-length byte l with a Name of exactly l bytes
\* (nil when l = 0), for every type byte; the 255-byte extreme; and settings
\* whose Name disagrees with byte 92 (an empty non-nil Name, a Name shorter
\* or longer than announced).
ConsistentSettings ==
  { [t |-> t, l |-> l, n |-> IF l = 0 THEN -1 ELSE l] : t \in TypeBytes, l \in 0..MaxNameLen }
    \cup { [t |-> t, l |-> 255, n |-> 255] : t \in {TypeKILL, TypeDROP} }
MismatchSettings ==
  { [t |-> TypeDROP, l |-> 0, n |-> 0],
    [t |-> TypeFIND, l |-> 0, n |-> 1],
    [t |-> TypeDROP, l |-> MaxNameLen, n |-> 1],
    [t |-> TypeFIND, l |-> 1, n |-> MaxNameLen] }
SlotSettings == ConsistentSettings \cup MismatchSettings

\* Settings combined in two slots of one file: both violations at once,
\* a name-length violation alone, and a valid named slot.
PairSettings ==
  { [t |-> 5, l |-> 1, n |-> 1],
    [t |-> TypeKILL, l |-> 1, n |-> 1],
    [t |-> TypeFIND, l |-> 1, n |-> 1] }

BaseSetting == [t |-> TypeKILL, l |-> 0, n |-> -1]

ObjectivesWith(s1, c1, s2, c2) ==
  [i \in 1..NumObjectives |->
     LET c == IF i = s1 THEN c1 ELSE IF i = s2 THEN c2 ELSE BaseSetting
     IN  Obj(i, c.t, c.l, c.n)]

\* All seven slots KILL without a name, except one slot with any setting, or
\* two slots with a pair setting each.
ObjectiveLists ==
  { ObjectivesWith(s, c, 0, BaseSetting) : s \in 1..NumObjectives, c \in SlotSettings }
    \cup { ObjectivesWith(p[1], p[3], p[2], p[4]) :
             p \in { x \in (1..NumObjectives) \X (1..NumObjectives) \X PairSettings \X PairSettings :
                       x[1] < x[2] } }

\* The minimal valid file of the tests, every objective list above under
\* the dense header, and the largest valid file: seven DROP objectives with
\* names of 255 bytes.
QuestFiles ==
  { [ Header       |-> HeaderMinimal,
      Objectives   |-> ObjectivesWith(0, BaseSetting, 0, BaseSetting),
      Continuation |-> ContinuationUnused ] }
    \cup { [Header |-> HeaderDense, Objectives |-> o, Continuation |-> ContinuationMixed] :
              o \in ObjectiveLists }
    \cup { [ Header       |-> HeaderMinimal,
             Objectives   |-> [i \in 1..NumObjectives |-> Obj(i, TypeDROP, 255, 255)],
             Continuation |-> ContinuationUnused ] }

\* Bytes appended after an encoded file (TestRead_TrailingBytesError).
ExtraByteValues == {0, 238}
RECURSIVE SeqsUpTo(_, _)
SeqsUpTo(S, n) ==
  IF n = 0 THEN {<<>>}
  ELSE LET shorter == SeqsUpTo(S, n - 1)
       IN  shorter \cup { Append(s, x) : s \in { t \in shorter : Len(t) = n - 1 }, x \in S }
Extras == SeqsUpTo(ExtraByteValues, MaxExtra)

\* ------------------------------------------------------------------------
\* State
\* ------------------------------------------------------------------------
VARIABLES
  q,        \* the caller's QuestFile
  phase,    \* "write": Write(q); "read": Read; "rewrite": Write(Read's result)
  wpc,      \* position of the running Write: header, block, name, cont, done
  wi,       \* objective index of the running Write
  w,        \* bytes the sink has received from the running Write
  werr,     \* the error the running Write returned (ErrNil while it runs)
  wcalls,   \* write calls the running Write has issued on the sink
  failedAt, \* number of the first write call the sink failed (0: none)
  sent,     \* the encoded file: what Write(q) produced
  extra,    \* bytes that follow the encoded file in the reader's stream
  rpc,      \* position of Read: idle, header, block, name, cont, probe, done
  ri,       \* objective / continuation index of Read
  rpos,     \* bytes Read has consumed from the stream
  rq,       \* Read's local `var q QuestFile`
  rval,     \* the QuestFile Read returned
  rerr,     \* the error Read returned
  rsite,    \* where Read returned: none, header, block, check, name, cont, probe
  cut,      \* length of the stream, once Read has hit its end (-1 before)
  endKind,  \* how the stream ended: "open" (not hit), ErrEOF, ErrNil, ErrFault
  h,        \* a QuestHeader held by a caller of the accessors
  hprev,    \* that header before the last setter call
  hcall,    \* the last setter call: [op, v]
  data,     \* the byte slice handed to the cipher
  plain,    \* the caller's copy of the slice before any cipher call
  keys,     \* dynamicKey of the Crypto562 objects "A" and "B"
  ops,      \* the cipher calls made so far: <<op, object>> each
  panicked, \* a cipher call indexed outside the slice
  raw,      \* the bytes shared by the concurrent readers
  procs,    \* the concurrent Read calls: each its own reader and locals
  bkind,    \* the codec in use: spawnlist, mapbin, monsterbin, msg (none: idle)
  bpc,      \* where its caller is: write, open, read, done
  bin,      \* the value handed to Write / GetBytesFromMsg
  bout,     \* the bytes Write / GetBytesFromMsg produced
  bstream,  \* the bytes behind the reader handed to Read / ReadMsgFromBytes
  bpos,     \* bytes Read has consumed from that reader
  bres,     \* the value Read returned
  berr,     \* the error Read returned
  bpanic    \* Read did not return: the run-time stopped it

wvars == <<wpc, wi, w, werr, wcalls, failedAt>>
hvars == <<h, hprev, hcall>>
cvars == <<data, plain, keys, ops, panicked>>
pvars == <<raw, procs>>
bvars == <<bkind, bpc, bin, bout, bstream, bpos, bres, berr, bpanic>>
sidevars == <<hvars, cvars, pvars, bvars>>
rvars == <<rpc, ri, rpos, rq, rval, rerr, rsite, cut, endKind>>
questvars == <<q, phase, sent, extra, wvars, rvars>>
vars == <<questvars, sidevars>>

\* The quest-file variables before any call, for the caller's file x.
QuestStart(x) ==
  /\ q = x
  /\ phase = "write"
  /\ wpc = "header"
  /\ wi = 1
  /\ w = <<>>
  /\ werr = ErrNil
  /\ wcalls = 0
  /\ failedAt = 0
  /\ sent = <<>>
  /\ extra = <<>>
  /\ rpc = "idle"
  /\ ri = 1
  /\ rpos = 0
  /\ rq = ZeroQuestFile
  /\ rval = ZeroQuestFile
  /\ rerr = ErrNil
  /\ rsite = "none"
  /\ cut = -1
  /\ endKind = "open"

\* The variables of the accessors, the cipher and the concurrent readers
\* while they are not in use.
HeaderIdle == h = ZeroQuestFile.Header /\ hprev = ZeroQuestFile.Header /\ hcall = [op |-> "none", v |-> 0]
CipherIdle == data = <<>> /\ plain = <<>> /\ keys = [c \in {"A", "B"} |-> 0] /\ ops = <<>> /\ panicked = FALSE
ConcIdle == raw = <<>> /\ procs = <<>>
CodecIdle ==
  /\ bkind = "none"
  /\ bpc = "done"
  /\ bin = <<>>
  /\ bout = <<>>
  /\ bstream = <<>>
  /\ bpos = 0
  /\ bres = <<>>
  /\ berr = ErrNil
  /\ bpanic = FALSE

Init ==
  /\ \E x \in QuestFiles : QuestStart(x)
  /\ HeaderIdle
  /\ CipherIdle
  /\ ConcIdle
  /\ CodecIdle

\* ------------------------------------------------------------------------
\* Write (quest_file.go, func Write)
\* ------------------------------------------------------------------------
\* The argument of the running Write call.
WSrc == IF phase = "write" THEN q ELSE rval

\* Variant: the loop index advanced twice.
AfterObjectiveSkip(i) ==
  IF i + 1 < NumObjectives THEN [pc |-> "block", i |-> i + 2] ELSE [pc |-> "cont", i |-> i]
\* Where Write goes after objective i is written.
AfterObjective(i) ==
  IF i < NumObjectives THEN [pc |-> "block", i |-> i + 1] ELSE [pc |-> "cont", i |-> i]

\* The sink's answers to one write call of n bytes: all n bytes taken and
\* no error, or (errWriter of the tests, and any sink that fails after taking
\* some of the bytes) k bytes taken and io.ErrShortWrite.  The bytes.Buffer
\* that receives the re-encoding never fails.
SinkCounts(n) == {0, 1, n} \cap 0..n
SinkOutcomes(n) ==
  {[n |-> n, err |-> ErrNil]}
    \cup (IF phase = "write" THEN {[n |-> k, err |-> ErrShortWrite] : k \in SinkCounts(n)} ELSE {})

\* `if err != nil { return err }` after a write call; next is where Write
\* goes on otherwise.  A wrong variant first: the error is dropped.
SinkReturnIgnored(err, next) == [pc |-> next.pc, i |-> next.i, err |-> ErrNil]
SinkReturn(err, next) ==
  IF err # ErrNil THEN [pc |-> "done", i |-> wi, err |-> err]
  ELSE [pc |-> next.pc, i |-> next.i, err |-> ErrNil]

\* One write call of Write: the sink takes o.n bytes of p and answers o.err.
WriteCall(p, o, next) ==
  /\ w' = w \o Sub(p, 0, o.n)
  /\ wcalls' = wcalls + 1
  /\ failedAt' = IF failedAt = 0 /\ o.err # ErrNil THEN wcalls + 1 ELSE failedAt
  /\ wpc' = SinkReturn(o.err, next).pc
  /\ wi' = SinkReturn(o.err, next).i
  /\ werr' = SinkReturn(o.err, next).err

\* The bytes of a name as Write sends them.  A wrong variant first: the
\* name preceded by its length.
NameBytesPrefixed(o) == <<NameLen(o) % 256>> \o o.Name.bytes
\* Another wrong variant: only as many bytes as byte 92 announces.
NameBytesAnnounced(o) == Sub(o.Name.bytes, 0, Min(NameLen(o), NameLength(o)))
NameBytes(o) == o.Name.bytes

\* binary.Write(w, binary.LittleEndian, &q.Header)
WriteHeader ==
  /\ phase \in {"write", "rewrite"}
  /\ wpc = "header"
  /\ \E o \in SinkOutcomes(HeaderSize) :
       WriteCall(EncodeHeader(WSrc.Header), o, [pc |-> "block", i |-> 1])
  /\ UNCHANGED <<q, phase, sent, extra>>
  /\ UNCHANGED sidevars
  /\ UNCHANGED rvars

\* w.Write(q.Objectives[i].Block[:]), then the len(Name) > 0 test
WriteBlock ==
  /\ phase \in {"write", "rewrite"}
  /\ wpc = "block"
  /\ \E o \in SinkOutcomes(ObjectiveBlockSize) :
       WriteCall(WSrc.Objectives[wi].Block, o,
                 IF NameLen(WSrc.Objectives[wi]) > 0
                   THEN [pc |-> "name", i |-> wi]
                   ELSE AfterObjective(wi))
  /\ UNCHANGED <<q, phase, sent, extra>>
  /\ UNCHANGED sidevars
  /\ UNCHANGED rvars

\* w.Write(q.Objectives[i].Name)
WriteName ==
  /\ phase \in {"write", "rewrite"}
  /\ wpc = "name"
  /\ \E o \in SinkOutcomes(Len(NameBytes(WSrc.Objectives[wi]))) :
       WriteCall(NameBytes(WSrc.Objectives[wi]), o, AfterObjective(wi))
  /\ UNCHANGED <<q, phase, sent, extra>>
  /\ UNCHANGED sidevars
  /\ UNCHANGED rvars

\* binary.Write(w, binary.LittleEndian, &q.Continuation); return nil
WriteContinuation ==
  /\ phase \in {"write", "rewrite"}
  /\ wpc = "cont"
  /\ \E o \in SinkOutcomes(ContinuationSize) :
       WriteCall(EncodeContinuation(WSrc.Continuation), o, [pc |-> "done", i |-> wi])
  /\ UNCHANGED <<q, phase, sent, extra>>
  /\ UNCHANGED sidevars
  /\ UNCHANGED rvars

\* ------------------------------------------------------------------------
\* The caller between the calls (quest_file_test.go)
\* ------------------------------------------------------------------------
\* Read(bytes.NewReader(raw)) / Read(bytes.NewReader(append(raw, ...))): the
\* written bytes become the reader's stream, followed by any extra bytes.
\* Only a stream without extra bytes may later turn out to be cut short.
OpenReader ==
  /\ phase = "write"
  /\ wpc = "done"
  /\ werr = ErrNil
  /\ phase' = "read"
  /\ sent' = w
  /\ extra' \in Extras
  /\ rpc' = "header"
  /\ UNCHANGED <<q, ri, rpos, rq, rval, rerr, rsite, cut, endKind>>
  /\ UNCHANGED sidevars
  /\ UNCHANGED wvars

\* Write(&buf2, read) after a successful Read.
Reencode ==
  /\ phase = "read"
  /\ rpc = "done"
  /\ rerr = ErrNil
  /\ phase' = "rewrite"
  /\ w' = <<>>
  /\ wpc' = "header"
  /\ wi' = 1
  /\ werr' = ErrNil
  /\ wcalls' = 0
  /\ failedAt' = 0
  /\ UNCHANGED <<q, sent, extra>>
  /\ UNCHANGED sidevars
  /\ UNCHANGED rvars

\* ------------------------------------------------------------------------
\* The reader handed to Read (an io.Reader over the stream)
\* ------------------------------------------------------------------------
Stream == sent \o extra
Avail == Len(Stream) - rpos

\* io.ReadFull(r, buf) for len(buf) = n when the reader delivers k bytes and
\* then (k < n) reports e: nil once n bytes are in, io.EOF only when nothing
\* was read, io.ErrUnexpectedEOF after a partial read, any other error as is.
ReadFullErr(k, n, e) ==
  IF k >= n THEN ErrNil
  ELSE IF e = ErrEOF THEN (IF k = 0 THEN ErrEOF ELSE ErrUnexpectedEOF)
  ELSE e

\* Byte counts after which the stream can end inside a read of n bytes: any
\* point of an encoded file that may have been cut short, else its real end.
ShortCounts(n) ==
  IF extra = <<>> THEN 0..Min(n - 1, Avail)
  ELSE IF Avail < n THEN {Avail} ELSE {}

\* A failing reader fails before the first or after the last byte it has.
FaultCounts(n) == ShortCounts(n) \cap {0, Min(n - 1, Avail)}

\* What one ReadFull / binary.Read of n bytes can meet: k bytes delivered,
\* the error returned, and how the stream ended ("open": it did not).
ReadFullOutcomes(n) ==
  (IF Avail >= n THEN {[k |-> n, err |-> ErrNil, end |-> "open"]} ELSE {})
    \cup { [k |-> k, err |-> ReadFullErr(k, n, ErrEOF), end |-> ErrEOF] : k \in ShortCounts(n) }
    \cup { [k |-> k, err |-> ReadFullErr(k, n, ErrFault), end |-> ErrFault] : k \in FaultCounts(n) }

\* What the final r.Read(one[:]) can meet: a byte, or no byte together with
\* io.EOF, with a fault, or with no error at all.
ProbeOutcomes ==
  (IF Avail >= 1 THEN {[n |-> 1, err |-> ErrNil, end |-> "open"]} ELSE {})
    \cup { [n |-> 0, err |-> e, end |-> e] :
             e \in IF Avail = 0 THEN {ErrEOF, ErrFault, ErrNil}
                   ELSE IF extra = <<>> THEN {ErrEOF, ErrFault} ELSE {} }

\* ------------------------------------------------------------------------
\* Read (quest_file.go, func Read, the current implementation)
\* ------------------------------------------------------------------------
\* `if err == io.EOF { return QuestFile{}, io.ErrUnexpectedEOF }; return QuestFile{}, err`
\* Variant: the io.EOF test left out of the error returns.
NormaliseEOFMissing(err) == err
NormaliseEOF(err) == IF err = ErrEOF THEN ErrUnexpectedEOF ELSE err

\* Variant: the error returns hand back the partly decoded local q.
ErrValuePartial(local) == local
\* The QuestFile of every error return: QuestFile{}, whatever the local q holds.
ErrValue(local) == ZeroQuestFile

\* Variant: the checks of the earlier Read (quest_file.go lines 113-119), which
\* rejects the 0xFF type and guards the name length of types 0..2 only.
ValidateV1(objType, nameLen) ==
  IF objType > TypeFIND THEN ErrInvalidObjectiveType
  ELSE IF objType <= TypeBRINGNPC /\ nameLen # 0 THEN ErrNameLengthForType
  ELSE ErrNil
\* Variant: 0xFF accepted as a type, but its name length left unguarded.
ValidateUnusedUnchecked(objType, nameLen) ==
  IF objType > TypeFIND /\ objType # TypeUnused THEN ErrInvalidObjectiveType
  ELSE IF objType <= TypeBRINGNPC /\ nameLen # 0 THEN ErrNameLengthForType
  ELSE ErrNil
\* Variant: the name-length check placed before the type check.
ValidateNameFirst(objType, nameLen) ==
  IF objType # TypeDROP /\ objType # TypeFIND /\ nameLen # 0 THEN ErrNameLengthForType
  ELSE IF objType > TypeFIND /\ objType # TypeUnused THEN ErrInvalidObjectiveType
  ELSE ErrNil
\* Variant: a semantic check added, the header's level range.
ValidateLevels(objType, nameLen) ==
  IF rq.Header.MinLevel > rq.Header.MaxLevel THEN ErrInvalidObjectiveType
  ELSE IF objType > TypeFIND /\ objType # TypeUnused THEN ErrInvalidObjectiveType
  ELSE IF objType # TypeDROP /\ objType # TypeFIND /\ nameLen # 0 THEN ErrNameLengthForType
  ELSE ErrNil
\* Variant: the name-length check left out.
ValidateTypeOnly(objType, nameLen) ==
  IF objType > TypeFIND /\ objType # TypeUnused THEN ErrInvalidObjectiveType ELSE ErrNil
\* Variant: every type byte above FIND accepted.
ValidateRangeOpen(objType, nameLen) ==
  IF objType # TypeDROP /\ objType # TypeFIND /\ nameLen # 0 THEN ErrNameLengthForType
  ELSE ErrNil
\* The two per-slot checks, in the order of the code.
Validate(objType, nameLen) ==
  IF objType > TypeFIND /\ objType # TypeUnused THEN ErrInvalidObjectiveType
  ELSE IF objType # TypeDROP /\ objType # TypeFIND /\ nameLen # 0 THEN ErrNameLengthForType
  ELSE ErrNil

\* Variant: the probe of the earlier Read (quest_file.go lines 145-148):
\* n > 0 || (err != nil && err != io.EOF).
ProbeResultV1(n, err) ==
  IF n > 0 \/ (err # ErrNil /\ err # ErrEOF) THEN ErrTrailingBytes ELSE ErrNil
\* Variant: only io.EOF counts as the end of the stream.
ProbeResultEOFOnly(n, err) == IF n = 0 /\ err = ErrEOF THEN ErrNil ELSE ErrTrailingBytes
\* Variant: the probe's byte count not looked at.
ProbeResultIgnored(n, err) == ErrNil
\* n, _ := r.Read(one[:]); if n > 0 { return QuestFile{}, ErrTrailingBytes }
ProbeResult(n, err) == IF n > 0 THEN ErrTrailingBytes ELSE ErrNil

\* Where Read goes after objective i is complete.
NextSlot(i) ==
  IF i < NumObjectives THEN [pc |-> "block", i |-> i + 1] ELSE [pc |-> "cont", i |-> 1]

\* An error return of Read after a read that met the stream's end.
ReturnReadError(o, local) ==
  /\ rval' = ErrValue(local)
  /\ rerr' = NormaliseEOF(o.err)
  /\ rpc' = "done"
  /\ rsite' = rpc
  /\ rpos' = rpos + o.k
  /\ cut' = rpos + o.k
  /\ endKind' = o.end

\* binary.Read(r, binary.LittleEndian, &q.Header)
ReadHeader ==
  /\ phase = "read"
  /\ rpc = "header"
  /\ \E o \in ReadFullOutcomes(HeaderSize) :
       IF o.err = ErrNil
         THEN /\ rq' = [rq EXCEPT !.Header = DecodeHeader(Sub(Stream, rpos, HeaderSize))]
              /\ rpos' = rpos + HeaderSize
              /\ rpc' = "block"
              /\ ri' = 1
              /\ UNCHANGED <<rval, rerr, rsite, cut, endKind>>
         ELSE /\ ReturnReadError(o, rq)
              /\ UNCHANGED <<rq, ri>>
  /\ UNCHANGED <<q, phase, sent, extra>>
  /\ UNCHANGED sidevars
  /\ UNCHANGED wvars

\* io.ReadFull(r, q.Objectives[i].Block[:]), the two checks, make([]byte, nameLen)
ReadObjective ==
  /\ phase = "read"
  /\ rpc = "block"
  /\ \E o \in ReadFullOutcomes(ObjectiveBlockSize) :
       IF o.err = ErrNil
         THEN LET block   == Sub(Stream, rpos, ObjectiveBlockSize)
                  local   == [rq EXCEPT !.Objectives[ri].Block = block]
                  objType == block[1]
                  nameLen == block[NameLenOffset + 1]
                  verdict == Validate(objType, nameLen)
              IN  /\ rpos' = rpos + ObjectiveBlockSize
                  /\ IF verdict # ErrNil
                       THEN /\ rval' = ErrValue(local)
                            /\ rerr' = verdict
                            /\ rpc' = "done"
                            /\ rsite' = "check"
                            /\ rq' = local
                            /\ ri' = ri
                       ELSE IF nameLen > 0
                       THEN /\ rq' = [local EXCEPT !.Objectives[ri].Name = Slice(Zeros(nameLen))]
                            /\ rpc' = "name"
                            /\ ri' = ri
                            /\ UNCHANGED <<rval, rerr, rsite>>
                       ELSE /\ rq' = local
                            /\ rpc' = NextSlot(ri).pc
                            /\ ri' = NextSlot(ri).i
                            /\ UNCHANGED <<rval, rerr, rsite>>
                  /\ UNCHANGED <<cut, endKind>>
         ELSE /\ ReturnReadError(o, rq)
              /\ UNCHANGED <<rq, ri>>
  /\ UNCHANGED <<q, phase, sent, extra>>
  /\ UNCHANGED sidevars
  /\ UNCHANGED wvars

\* io.ReadFull(r, q.Objectives[i].Name)
ReadName ==
  /\ phase = "read"
  /\ rpc = "name"
  /\ \E o \in ReadFullOutcomes(NameLen(rq.Objectives[ri])) :
       IF o.err = ErrNil
         THEN /\ rq' = [rq EXCEPT !.Objectives[ri].Name =
                          Slice(Sub(Stream, rpos, NameLen(rq.Objectives[ri])))]
              /\ rpos' = rpos + NameLen(rq.Objectives[ri])
              /\ rpc' = NextSlot(ri).pc
              /\ ri' = NextSlot(ri).i
              /\ UNCHANGED <<rval, rerr, rsite, cut, endKind>>
         ELSE /\ ReturnReadError(o, rq)
              /\ UNCHANGED <<rq, ri>>
  /\ UNCHANGED <<q, phase, sent, extra>>
  /\ UNCHANGED sidevars
  /\ UNCHANGED wvars

\* binary.Read(r, binary.LittleEndian, &q.Continuation[i])
ReadContinuation ==
  /\ phase = "read"
  /\ rpc = "cont"
  /\ \E o \in ReadFullOutcomes(4) :
       IF o.err = ErrNil
         THEN /\ rq' = [rq EXCEPT !.Continuation[ri] = LEUint32(Sub(Stream, rpos, 4))]
              /\ rpos' = rpos + 4
              /\ IF ri < 3
                   THEN /\ ri' = ri + 1
                        /\ rpc' = "cont"
                   ELSE /\ ri' = ri
                        /\ rpc' = "probe"
              /\ UNCHANGED <<rval, rerr, rsite, cut, endKind>>
         ELSE /\ ReturnReadError(o, rq)
              /\ UNCHANGED <<rq, ri>>
  /\ UNCHANGED <<q, phase, sent, extra>>
  /\ UNCHANGED sidevars
  /\ UNCHANGED wvars

\* The speculative one-byte read, then `return q, nil`
Probe ==
  /\ phase = "read"
  /\ rpc = "probe"
  /\ \E o \in ProbeOutcomes :
       LET verdict == ProbeResult(o.n, o.err)
       IN  /\ rval' = IF verdict = ErrNil THEN rq ELSE ErrValue(rq)
           /\ rerr' = verdict
           /\ rpc' = "done"
           /\ rsite' = "probe"
           /\ rpos' = rpos + o.n
           /\ cut' = IF o.n = 0 THEN rpos ELSE cut
           /\ endKind' = o.end
  /\ UNCHANGED <<rq, ri>>
  /\ UNCHANGED <<q, phase, sent, extra>>
  /\ UNCHANGED sidevars
  /\ UNCHANGED wvars

\* ------------------------------------------------------------------------
\* Specification
\* ------------------------------------------------------------------------
Next ==
  \/ WriteHeader
  \/ WriteBlock
  \/ WriteName
  \/ WriteContinuation
  \/ OpenReader
  \/ ReadHeader
  \/ ReadObjective
  \/ ReadName
  \/ ReadContinuation
  \/ Probe
  \/ Reencode

Spec == Init /\ [][Next]_vars

\* The runs in which termination is checked: the files whose slots 2 to 6 are
\* plain (the minimal file, every slot setting in slot 1 or in slot 7, the
\* pair settings in slots 1 and 7) and the largest file.
InitFair ==
  /\ \E x \in { f \in QuestFiles :
                  \/ \A i \in 2..(NumObjectives - 1) :
                       f.Objectives[i] = Obj(i, BaseSetting.t, BaseSetting.l, BaseSetting.n)
                  \/ \A i \in 1..NumObjectives : NameLen(f.Objectives[i]) = 255 } :
       QuestStart(x)
  /\ HeaderIdle
  /\ CipherIdle
  /\ ConcIdle
  /\ CodecIdle

\* Read is sequential code, and every call it makes on the reader returns
\* (with bytes, with an error, or with both): a Read that has a step to take
\* takes it.
SpecFair ==
  /\ InitFair
  /\ [][Next]_vars
  /\ WF_vars(ReadHeader \/ ReadObjective \/ ReadName \/ ReadContinuation \/ Probe)

\* ------------------------------------------------------------------------
\* The earlier Read (quest_file.go lines 88-151)
\* ------------------------------------------------------------------------
\* The file holds two implementations of Read.  The earlier one is modelled
\* as a function of the reader it is given: the bytes s, of which the reader
\* delivers the first L, and the way e in which the reader ends after them
\* (io.EOF, a fault, or no error and no byte).

\* `if objType > TypeFIND`, `if objType <= TypeBRINGNPC && nameLen != 0`.
\* A wrong variant first: BRINGNPC left out of the name-length check.
ValidateEarlierOffByOne(objType, nameLen) ==
  IF objType > TypeFIND THEN ErrInvalidObjectiveType
  ELSE IF objType < TypeBRINGNPC /\ nameLen # 0 THEN ErrNameLengthForType
  ELSE ErrNil
ValidateEarlier(objType, nameLen) ==
  IF objType > TypeFIND THEN ErrInvalidObjectiveType
  ELSE IF objType <= TypeBRINGNPC /\ nameLen # 0 THEN ErrNameLengthForType
  ELSE ErrNil

\* `if n, err := r.Read(one[:]); n > 0 || (err != nil && err != io.EOF)`
ProbeResultEarlier(n, err) ==
  IF n > 0 \/ (err # ErrNil /\ err # ErrEOF) THEN ErrTrailingBytes ELSE ErrNil

\* The earlier Read from step i on, pos bytes consumed and x decoded so far:
\* step 0 reads the header, steps 1 to 7 the objectives, the next three the
\* continuation values, the last one probes for a further byte.
RECURSIVE EarlierReadFrom(_, _, _, _, _, _)
EarlierReadFrom(s, L, e, i, pos, x) ==
  LET full(at, n) == IF at + n <= L THEN ErrNil ELSE ReadFullErr(L - at, n, e)
      fail(err)   == [val |-> ZeroQuestFile, err |-> err]
      failEOF(err) == fail(IF err = ErrEOF THEN ErrUnexpectedEOF ELSE err)
  IN  IF i = 0
        THEN IF full(pos, HeaderSize) # ErrNil THEN failEOF(full(pos, HeaderSize))
             ELSE EarlierReadFrom(s, L, e, 1, pos + HeaderSize,
                    [x EXCEPT !.Header = DecodeHeader(Sub(s, pos, HeaderSize))])
      ELSE IF i <= NumObjectives
        THEN IF full(pos, ObjectiveBlockSize) # ErrNil
               THEN failEOF(full(pos, ObjectiveBlockSize))
             ELSE LET block   == Sub(s, pos, ObjectiveBlockSize)
                      objType == block[1]
                      nameLen == block[NameLenOffset + 1]
                      verdict == ValidateEarlier(objType, nameLen)
                      after   == pos + ObjectiveBlockSize
                  IN  IF verdict # ErrNil THEN fail(verdict)
                      ELSE IF nameLen > 0
                        THEN IF full(after, nameLen) # ErrNil
                               THEN failEOF(full(after, nameLen))
                             ELSE EarlierReadFrom(s, L, e, i + 1, after + nameLen,
                                    [x EXCEPT !.Objectives[i] =
                                       [Block |-> block, Name |-> Slice(Sub(s, after, nameLen))]])
                      ELSE EarlierReadFrom(s, L, e, i + 1, after,
                             [x EXCEPT !.Objectives[i].Block = block])
      ELSE IF i <= NumObjectives + 3
        THEN IF full(pos, 4) # ErrNil THEN failEOF(full(pos, 4))
             ELSE EarlierReadFrom(s, L, e, i + 1, pos + 4,
                    [x EXCEPT !.Continuation[i - NumObjectives] = LEUint32(Sub(s, pos, 4))])
      ELSE LET n       == IF pos < L THEN 1 ELSE 0
               err     == IF pos < L THEN ErrNil ELSE e
               verdict == ProbeResultEarlier(n, err)
           IN  IF verdict # ErrNil THEN fail(verdict) ELSE [val |-> x, err |-> ErrNil]

\* Read(r): `var q QuestFile`, then the steps in order.
EarlierRead(s, L, e) == EarlierReadFrom(s, L, e, 0, 0, ZeroQuestFile)

\* ------------------------------------------------------------------------
\* QuestHeader accessors (quest_file.go, QuestID .. SetGivenNPCID)
\* ------------------------------------------------------------------------
\* The quest-file variables while no Write or Read is under way.
QuestIdle == QuestStart(ZeroQuestFile)

\* QuestID(): binary.LittleEndian.Uint16(h.QuestIDRaw[:2]).  A wrong variant
\* first: the value taken from the last two bytes of the slot.
QuestIDUpperHalf(x) == LEUint16(Sub(x.QuestIDRaw, 2, 2))
QuestID(x) == LEUint16(Sub(x.QuestIDRaw, 0, 2))

\* GivenNPCID(): binary.LittleEndian.Uint16(h.GivenNPCRaw[:2])
GivenNPCID(x) == LEUint16(Sub(x.GivenNPCRaw, 0, 2))

\* SetQuestID(id): binary.LittleEndian.PutUint16(h.QuestIDRaw[:2], id).  A
\* wrong variant first: the whole slot rewritten as a 32-bit value.
SetQuestIDWholeSlot(x, id) == [x EXCEPT !.QuestIDRaw = PutLEUint16(id) \o <<0, 0>>]
SetQuestID(x, id) ==
  [x EXCEPT !.QuestIDRaw = PutLEUint16(id) \o Sub(x.QuestIDRaw, 2, 2)]

\* SetGivenNPCID(id): binary.LittleEndian.PutUint16(h.GivenNPCRaw[:2], id)
SetGivenNPCID(x, id) ==
  [x EXCEPT !.GivenNPCRaw = PutLEUint16(id) \o Sub(x.GivenNPCRaw, 2, 2)]

\* Headers the accessors are called on, and the uint16 arguments given to
\* the setters: the extremes, one-byte and two-byte values.
AccessorHeaders == {ZeroQuestFile.Header, HeaderMinimal, HeaderDense}
IDValues == {0, 1, 255, 256, 4660, 43981, 65535}

InitHeader ==
  /\ QuestIdle
  /\ CodecIdle
  /\ h \in AccessorHeaders
  /\ hprev = h
  /\ hcall = [op |-> "none", v |-> 0]
  /\ CipherIdle
  /\ ConcIdle

\* h.SetQuestID(id)
CallSetQuestID ==
  /\ \E id \in IDValues :
       /\ h' = SetQuestID(h, id)
       /\ hcall' = [op |-> "SetQuestID", v |-> id]
  /\ hprev' = h
  /\ UNCHANGED <<bvars, questvars, cvars, pvars>>

\* h.SetGivenNPCID(id)
CallSetGivenNPCID ==
  /\ \E id \in IDValues :
       /\ h' = SetGivenNPCID(h, id)
       /\ hcall' = [op |-> "SetGivenNPCID", v |-> id]
  /\ hprev' = h
  /\ UNCHANGED <<bvars, questvars, cvars, pvars>>

NextHeader ==
  \/ CallSetQuestID
  \/ CallSetGivenNPCID

SpecHeader == InitHeader /\ [][NextHeader]_vars

\* ------------------------------------------------------------------------
\* Concurrent decodes (quest_file_test.go, TestRead_ConcurrentReads)
\* ------------------------------------------------------------------------
\* Goroutines that each call Read(bytes.NewReader(data)) on the same data.
NumReaders == 2

\* Everything Write(x) sends to a sink that does not fail.
RECURSIVE ObjectivesOutput(_, _)
ObjectivesOutput(x, i) ==
  IF i = 0 THEN <<>>
  ELSE ObjectivesOutput(x, i - 1) \o x.Objectives[i].Block \o NameBytes(x.Objectives[i])
WriteOutput(x) ==
  EncodeHeader(x.Header) \o ObjectivesOutput(x, NumObjectives)
    \o EncodeContinuation(x.Continuation)

\* The data the goroutines share: the minimal file, a file with a name in
\* slot 3, that file cut inside the name, a file with a violation in slots 2
\* and 5, and the minimal file followed by one more byte.
NamedFile ==
  [ Header       |-> HeaderDense,
    Objectives   |-> ObjectivesWith(3, [t |-> TypeDROP, l |-> MaxNameLen, n |-> MaxNameLen],
                                    0, BaseSetting),
    Continuation |-> ContinuationMixed ]
ViolatingFile ==
  [ Header       |-> HeaderDense,
    Objectives   |-> ObjectivesWith(2, [t |-> 5, l |-> 1, n |-> 1],
                                    5, [t |-> TypeKILL, l |-> 1, n |-> 1]),
    Continuation |-> ContinuationMixed ]
MinimalFile ==
  [ Header       |-> HeaderMinimal,
    Objectives   |-> ObjectivesWith(0, BaseSetting, 0, BaseSetting),
    Continuation |-> ContinuationUnused ]
SharedData ==
  { WriteOutput(MinimalFile),
    WriteOutput(NamedFile),
    Sub(WriteOutput(NamedFile), 0, HeaderSize + 3 * ObjectiveBlockSize + 1),
    WriteOutput(ViolatingFile),
    WriteOutput(MinimalFile) \o <<238>> }

\* A Read call about to start: its reader at offset 0, its local q zero.
ReadStart ==
  [pc |-> "header", i |-> 1, pos |-> 0, q |-> ZeroQuestFile, val |-> ZeroQuestFile, err |-> ErrNil]

\* The offset of the reader of call n: each call has a bytes.Reader of its
\* own.  A wrong variant first: one reader shared by all calls.
ReaderPosShared(ps, n) == ps[1].pos
ReaderPos(ps, n) == ps[n].pos

\* bytes.Reader under io.ReadFull / binary.Read of n bytes at offset pos, and
\* under the one-byte probe: the bytes that are left, then io.EOF.
BytesReaderFull(pos, n) ==
  LET k == Min(n, Len(raw) - pos)
  IN  [k |-> k, err |-> ReadFullErr(k, n, ErrEOF)]
BytesReaderProbe(pos) ==
  IF pos < Len(raw) THEN [n |-> 1, err |-> ErrNil] ELSE [n |-> 0, err |-> ErrEOF]

\* An error return of call p after a read of k bytes at offset pos.
ReadFailed(p, pos, k, err) ==
  [p EXCEPT !.pc = "done", !.pos = pos + k, !.val = ErrValue(p.q), !.err = NormaliseEOF(err)]

\* The steps of Read for call n among the calls ps.
StepHeader(ps, n) ==
  LET p   == ps[n]
      pos == ReaderPos(ps, n)
      o   == BytesReaderFull(pos, HeaderSize)
  IN  IF o.err # ErrNil THEN ReadFailed(p, pos, o.k, o.err)
      ELSE [p EXCEPT !.q.Header = DecodeHeader(Sub(raw, pos, HeaderSize)),
                     !.pos = pos + HeaderSize, !.pc = "block", !.i = 1]

StepObjective(ps, n) ==
  LET p       == ps[n]
      pos     == ReaderPos(ps, n)
      o       == BytesReaderFull(pos, ObjectiveBlockSize)
      block   == Sub(raw, pos, ObjectiveBlockSize)
      objType == block[1]
      nameLen == block[NameLenOffset + 1]
      verdict == Validate(objType, nameLen)
      local   == [p.q EXCEPT !.Objectives[p.i].Block = block]
  IN  IF o.err # ErrNil THEN ReadFailed(p, pos, o.k, o.err)
      ELSE IF verdict # ErrNil
        THEN [p EXCEPT !.pc = "done", !.pos = pos + ObjectiveBlockSize, !.q = local,
                       !.val = ErrValue(local), !.err = verdict]
      ELSE IF nameLen > 0
        THEN [p EXCEPT !.pc = "name", !.pos = pos + ObjectiveBlockSize,
                       !.q = [local EXCEPT !.Objectives[p.i].Name = Slice(Zeros(nameLen))]]
      ELSE [p EXCEPT !.pc = NextSlot(p.i).pc, !.i = NextSlot(p.i).i,
                     !.pos = pos + ObjectiveBlockSize, !.q = local]

StepName(ps, n) ==
  LET p   == ps[n]
      pos == ReaderPos(ps, n)
      len == NameLen(p.q.Objectives[p.i])
      o   == BytesReaderFull(pos, len)
  IN  IF o.err # ErrNil THEN ReadFailed(p, pos, o.k, o.err)
      ELSE [p EXCEPT !.q.Objectives[p.i].Name = Slice(Sub(raw, pos, len)),
                     !.pos = pos + len, !.pc = NextSlot(p.i).pc, !.i = NextSlot(p.i).i]

StepContinuation(ps, n) ==
  LET p   == ps[n]
      pos == ReaderPos(ps, n)
      o   == BytesReaderFull(pos, 4)
  IN  IF o.err # ErrNil THEN ReadFailed(p, pos, o.k, o.err)
      ELSE [p EXCEPT !.q.Continuation[p.i] = LEUint32(Sub(raw, pos, 4)),
                     !.pos = pos + 4,
                     !.pc = IF p.i < 3 THEN "cont" ELSE "probe",
                     !.i = IF p.i < 3 THEN p.i + 1 ELSE p.i]

StepProbe(ps, n) ==
  LET p       == ps[n]
      pos     == ReaderPos(ps, n)
      o       == BytesReaderProbe(pos)
      verdict == ProbeResult(o.n, o.err)
  IN  [p EXCEPT !.pc = "done", !.pos = pos + o.n,
                !.val = IF verdict = ErrNil THEN p.q ELSE ErrValue(p.q),
                !.err = verdict]

InitConc ==
  /\ QuestIdle
  /\ CodecIdle
  /\ HeaderIdle
  /\ CipherIdle
  /\ raw \in SharedData
  /\ procs = [n \in 1..NumReaders |-> ReadStart]

\* One goroutine's Read runs its next step.
ConcReadHeader ==
  /\ \E n \in 1..NumReaders :
       /\ procs[n].pc = "header"
       /\ procs' = [procs EXCEPT ![n] = StepHeader(procs, n)]
  /\ UNCHANGED <<raw, bvars, questvars, hvars, cvars>>

ConcReadObjective ==
  /\ \E n \in 1..NumReaders :
       /\ procs[n].pc = "block"
       /\ procs' = [procs EXCEPT ![n] = StepObjective(procs, n)]
  /\ UNCHANGED <<raw, bvars, questvars, hvars, cvars>>

ConcReadName ==
  /\ \E n \in 1..NumReaders :
       /\ procs[n].pc = "name"
       /\ procs' = [procs EXCEPT ![n] = StepName(procs, n)]
  /\ UNCHANGED <<raw, bvars, questvars, hvars, cvars>>

ConcReadContinuation ==
  /\ \E n \in 1..NumReaders :
       /\ procs[n].pc = "cont"
       /\ procs' = [procs EXCEPT ![n] = StepContinuation(procs, n)]
  /\ UNCHANGED <<raw, bvars, questvars, hvars, cvars>>

ConcProbe ==
  /\ \E n \in 1..NumReaders :
       /\ procs[n].pc = "probe"
       /\ procs' = [procs EXCEPT ![n] = StepProbe(procs, n)]
  /\ UNCHANGED <<raw, bvars, questvars, hvars, cvars>>

NextConc ==
  \/ ConcReadHeader
  \/ ConcReadObjective
  \/ ConcReadName
  \/ ConcReadContinuation
  \/ ConcProbe

SpecConc == InitConc /\ [][NextConc]_vars

\* ------------------------------------------------------------------------
\* The 562 cipher (crypto.go)
\* ------------------------------------------------------------------------
\* Longest slice handed to the cipher, and most cipher calls on one slice.
MaxDataLen == 21
MaxCalls == 2

\* const offset = 0x0C; constKey1 and constKey2 of NewCrypto562.
offset == 12
constKey1 == 2366183
constKey2 == 1432754

\* a ^ b on bytes.
RECURSIVE XorBits(_, _, _)
XorBits(a, b, n) ==
  IF n = 0 THEN 0 ELSE ((a + b) % 2) + 2 * XorBits(a \div 2, b \div 2, n - 1)
Xor(a, b) == XorBits(a, b, 8)

\* byte(DynamicKey >> 8): bits 8..15 of the key (an arithmetic shift, so a
\* negative key yields the bits of its two's complement).
KeyByte(DynamicKey) == (DynamicKey \div 256) % 256

\* DynamicKey = (int(b) + DynamicKey) * constKey1 + constKey2 in Go's int
\* with wrap-around.  The cipher only ever looks at bits 8..15 of the key, and
\* sum and product keep congruence modulo 2^16 through the wrap-around, so the
\* key is carried modulo 2^16.
KeyStep(b, DynamicKey) ==
  (((b + DynamicKey) % 65536) * (constKey1 % 65536) + (constKey2 % 65536)) % 65536

\* The loop condition `i+4 <= bufferLen`.  A wrong variant first: a block is
\* started whenever a byte is left.
BlockStarted(i, bufferLen) == i < bufferLen
BlockFits(i, bufferLen) == i + 4 <= bufferLen

\* The byte that feeds the key when decrypting: pSrc, the byte before the
\* XOR.  A wrong variant first: the byte after the XOR.
DecryptFeedOutput(pSrc, out) == out
DecryptFeed(pSrc, out) == pSrc

\* The inner loop `for j := i; j < i+4; j++` of EncryptInPlace from byte j
\* (0-based) on; an index outside the slice panics and leaves the slice as
\* it is by then.
RECURSIVE EncryptBytes(_, _, _, _)
EncryptBytes(d, j, end, DynamicKey) ==
  IF j >= end THEN [data |-> d, panicked |-> FALSE]
  ELSE IF j >= Len(d) THEN [data |-> d, panicked |-> TRUE]
  ELSE LET out == Xor(d[j + 1], KeyByte(DynamicKey))
       IN  EncryptBytes([d EXCEPT ![j + 1] = out], j + 1, end, KeyStep(out, DynamicKey))

\* The inner loop of DecryptInPlace.
RECURSIVE DecryptBytes(_, _, _, _)
DecryptBytes(d, j, end, DynamicKey) ==
  IF j >= end THEN [data |-> d, panicked |-> FALSE]
  ELSE IF j >= Len(d) THEN [data |-> d, panicked |-> TRUE]
  ELSE LET pSrc == d[j + 1]
           out  == Xor(pSrc, KeyByte(DynamicKey))
       IN  DecryptBytes([d EXCEPT ![j + 1] = out], j + 1, end,
                        KeyStep(DecryptFeed(pSrc, out), DynamicKey))

\* The outer loops `for i := offset; i+4 <= bufferLen; i += 4`, every block
\* starting from c.dynamicKey.
RECURSIVE EncryptBlocks(_, _, _)
EncryptBlocks(d, i, dynamicKey) ==
  IF ~BlockFits(i, Len(d)) THEN [data |-> d, panicked |-> FALSE]
  ELSE LET r == EncryptBytes(d, i, i + 4, dynamicKey)
       IN  IF r.panicked THEN r ELSE EncryptBlocks(r.data, i + 4, dynamicKey)

RECURSIVE DecryptBlocks(_, _, _)
DecryptBlocks(d, i, dynamicKey) ==
  IF ~BlockFits(i, Len(d)) THEN [data |-> d, panicked |-> FALSE]
  ELSE LET r == DecryptBytes(d, i, i + 4, dynamicKey)
       IN  IF r.panicked THEN r ELSE DecryptBlocks(r.data, i + 4, dynamicKey)

EncryptInPlace(d, dynamicKey) == EncryptBlocks(d, offset, dynamicKey)
DecryptInPlace(d, dynamicKey) == DecryptBlocks(d, offset, dynamicKey)

\* Dynamic keys given to NewCrypto562: those of the tests, a key above 16
\* bits and a negative one.
KeyValues == {0, 1, 4660, 65537, -1}

\* Slices handed to the cipher: every length up to MaxDataLen (a nil and an
\* empty slice both have length 0), all bytes zero or every byte different.
DataValues ==
  { [k \in 1..n |-> 0] : n \in 0..MaxDataLen }
    \cup { [k \in 1..n |-> (17 * k + 3) % 256] : n \in 0..MaxDataLen }

Objects == {"A", "B"}

InitCipher ==
  /\ QuestIdle
  /\ CodecIdle
  /\ HeaderIdle
  /\ ConcIdle
  /\ data \in DataValues
  /\ plain = data
  /\ keys \in [Objects -> KeyValues]
  /\ ops = <<>>
  /\ panicked = FALSE

\* c.EncryptInPlace(data) on one of the two objects
CallEncryptInPlace ==
  /\ Len(ops) < MaxCalls
  /\ ~panicked
  /\ \E c \in Objects :
       /\ data' = EncryptInPlace(data, keys[c]).data
       /\ panicked' = EncryptInPlace(data, keys[c]).panicked
       /\ ops' = Append(ops, <<"Encrypt", c>>)
  /\ UNCHANGED <<plain, keys>>
  /\ UNCHANGED <<bvars, questvars, hvars, pvars>>

\* c.DecryptInPlace(data) on one of the two objects
CallDecryptInPlace ==
  /\ Len(ops) < MaxCalls
  /\ ~panicked
  /\ \E c \in Objects :
       /\ data' = DecryptInPlace(data, keys[c]).data
       /\ panicked' = DecryptInPlace(data, keys[c]).panicked
       /\ ops' = Append(ops, <<"Decrypt", c>>)
  /\ UNCHANGED <<plain, keys>>
  /\ UNCHANGED <<bvars, questvars, hvars, pvars>>

NextCipher ==
  \/ CallEncryptInPlace
  \/ CallDecryptInPlace

SpecCipher == InitCipher /\ [][NextCipher]_vars

\* ------------------------------------------------------------------------
\* List codecs: spawnlist, mapbin, monsterbin
\* ------------------------------------------------------------------------
\* Longest list handed to a Write.
MaxItems == 2

\* A Go slice of items: nil, or an allocated (possibly empty) slice.
NilList == [set |-> FALSE, items |-> <<>>]
List(items) == [set |-> TRUE, items |-> items]

\* "Alpha", "Beta", ... : the bytes of a name copied into a zeroed array of n bytes.
NameArray(text, n) == [k \in 1..n |-> IF k <= Len(text) THEN text[k] ELSE 0]

\* binary.Size(SpawnListItem{}): uint16, byte, byte, uint16, byte, byte.
SpawnItemSize == 2 + 1 + 1 + 2 + 1 + 1

\* binary.Write / binary.Read of one SpawnListItem, little-endian, the fields
\* in declaration order.  A wrong variant of the decoding first: Id taken
\* most significant byte first.
EncodeSpawnItem(it) ==
  PutLEUint16(it.Id) \o <<it.X, it.Y>> \o PutLEUint16(it.Unknown1)
    \o <<it.Orientation, it.SpwanStep>>
DecodeSpawnItemBigEndian(b) ==
  [ Id |-> 256 * b[1] + b[2], X |-> b[3], Y |-> b[4],
    Unknown1 |-> LEUint16(Sub(b, 4, 2)), Orientation |-> b[7], SpwanStep |-> b[8] ]
DecodeSpawnItem(b) ==
  [ Id |-> LEUint16(Sub(b, 0, 2)), X |-> b[3], Y |-> b[4],
    Unknown1 |-> LEUint16(Sub(b, 4, 2)), Orientation |-> b[7], SpwanStep |-> b[8] ]

\* spawnlist.Write on a sink that does not fail: binary.Write of the slice,
\* item after item; nothing for a nil or empty slice.
RECURSIVE SpawnListOutput(_, _)
SpawnListOutput(items, n) ==
  IF n = 0 THEN <<>> ELSE SpawnListOutput(items, n - 1) \o EncodeSpawnItem(items[n])

\* spawnlist.Read over a stream b that ends with io.EOF: io.ReadAll, the
\* length test, make(SpawnList, n), binary.Read of the n items.
SpawnListResult(b) ==
  IF Len(b) % SpawnItemSize # 0
    THEN [val |-> NilList, err |-> ErrUnexpectedEOF, pos |-> Len(b)]
  ELSE [ val |-> List([i \in 1..(Len(b) \div SpawnItemSize) |->
                         DecodeSpawnItem(Sub(b, (i - 1) * SpawnItemSize, SpawnItemSize))]),
         err |-> ErrNil,
         pos |-> Len(b) ]

\* binary.Size of MapBinItem (six uint32 and Name [0x20]byte) and of
\* MonsterBinItem (uint32, Name [0x1F]byte, Unknown [0x3D]byte).
MapItemSize == 6 * 4 + 32
MonsterItemSize == 4 + 31 + 61

EncodeMapItem(it) ==
  PutLEUint32(it.ID) \o PutLEUint32(it.Unknown1) \o PutLEUint32(it.Unknown2)
    \o PutLEUint32(it.Unknown3) \o PutLEUint32(it.Unknown4) \o PutLEUint32(it.Unknown5)
    \o it.Name
DecodeMapItem(b) ==
  [ ID       |-> LEUint32(Sub(b, 0, 4)),
    Unknown1 |-> LEUint32(Sub(b, 4, 4)),
    Unknown2 |-> LEUint32(Sub(b, 8, 4)),
    Unknown3 |-> LEUint32(Sub(b, 12, 4)),
    Unknown4 |-> LEUint32(Sub(b, 16, 4)),
    Unknown5 |-> LEUint32(Sub(b, 20, 4)),
    Name     |-> Sub(b, 24, 32) ]

EncodeMonsterItem(it) == PutLEUint32(it.ID) \o it.Name \o it.Unknown
DecodeMonsterItem(b) ==
  [ID |-> LEUint32(Sub(b, 0, 4)), Name |-> Sub(b, 4, 31), Unknown |-> Sub(b, 35, 61)]

\* uint32(len(data))
Uint32Of(n) == [lo |-> n % 65536, hi |-> (n \div 65536) % 65536]

\* mapbin.Write / monsterbin.Write on a sink that does not fail: the entry
\* count, then binary.Write of each item.
RECURSIVE MapItemsOutput(_, _)
MapItemsOutput(items, n) ==
  IF n = 0 THEN <<>> ELSE MapItemsOutput(items, n - 1) \o EncodeMapItem(items[n])
MapBinOutput(items) == PutLEUint32(Uint32Of(Len(items))) \o MapItemsOutput(items, Len(items))

RECURSIVE MonsterItemsOutput(_, _)
MonsterItemsOutput(items, n) ==
  IF n = 0 THEN <<>> ELSE MonsterItemsOutput(items, n - 1) \o EncodeMonsterItem(items[n])
MonsterBinOutput(items) ==
  PutLEUint32(Uint32Of(Len(items))) \o MonsterItemsOutput(items, Len(items))

\* make(MapBin, entryCount) / make(MonsterBin, entryCount): the slice is
\* made, or, when entryCount items of the given size exceed a 32-bit address
\* space (2^32 bytes), the run-time may stop the call instead (makeslice: len
\* out of range where int has 32 bits, out of memory elsewhere).
MakeOutcomes(entryCount, size) ==
  {"made"} \cup (IF entryCount.hi * size >= 65536 THEN {"panic"} ELSE {})

\* `for i := range mapData { binary.Read(r, ..., &mapData[i]) }` over a
\* stream of L bytes that ends with io.EOF, from item i (0-based) at offset
\* pos: the number of items read, the offset reached and the error met.
RECURSIVE ReadItemsLoop(_, _, _, _, _)
ReadItemsLoop(L, pos, i, entryCount, size) ==
  IF entryCount.hi = 0 /\ entryCount.lo = i THEN [n |-> i, pos |-> pos, err |-> ErrNil]
  ELSE LET k == Min(size, L - pos)
       IN  IF ReadFullErr(k, size, ErrEOF) # ErrNil
             THEN [n |-> i, pos |-> pos + k, err |-> ReadFullErr(k, size, ErrEOF)]
           ELSE ReadItemsLoop(L, pos + size, i + 1, entryCount, size)

\* What Read does once every item is read: `return mapData, nil`, without a
\* look at what follows.  A wrong variant first: bytes that follow are an error.
EndOfItemsChecked(pos, L) == IF pos < L THEN ErrTrailingBytes ELSE ErrNil
EndOfItems(pos, L) == ErrNil

\* mapbin.Read / monsterbin.Read up to the items' decoding, over the stream
\* b with items of the given size, make having succeeded: the count read
\* (binary.Read of 4 bytes), the loop, the return.
CountedRead(b, size) ==
  LET k == Min(4, Len(b))
  IN  IF ReadFullErr(k, 4, ErrEOF) # ErrNil
        THEN [n |-> -1, pos |-> k, err |-> ReadFullErr(k, 4, ErrEOF)]
      ELSE LET loop == ReadItemsLoop(Len(b), 4, 0, LEUint32(Sub(b, 0, 4)), size)
           IN  IF loop.err # ErrNil THEN [n |-> -1, pos |-> loop.pos, err |-> loop.err]
               ELSE [n |-> loop.n, pos |-> loop.pos, err |-> EndOfItems(loop.pos, Len(b))]

MapBinResult(b) ==
  LET r == CountedRead(b, MapItemSize)
  IN  [ val |-> IF r.err # ErrNil THEN NilList
                ELSE List([i \in 1..r.n |->
                             DecodeMapItem(Sub(b, 4 + (i - 1) * MapItemSize, MapItemSize))]),
        err |-> r.err,
        pos |-> r.pos ]

MonsterBinResult(b) ==
  LET r == CountedRead(b, MonsterItemSize)
  IN  [ val |-> IF r.err # ErrNil THEN NilList
                ELSE List([i \in 1..r.n |->
                             DecodeMonsterItem(Sub(b, 4 + (i - 1) * MonsterItemSize,
                                                   MonsterItemSize))]),
        err |-> r.err,
        pos |-> r.pos ]

\* Items of the tests.
SpawnItems ==
  { [Id |-> 100, X |-> 10, Y |-> 20, Unknown1 |-> 4660, Orientation |-> 2, SpwanStep |-> 1],
    [Id |-> 300, X |-> 0, Y |-> 0, Unknown1 |-> 0, Orientation |-> 15, SpwanStep |-> 255],
    [Id |-> 258, X |-> 10, Y |-> 20, Unknown1 |-> 772, Orientation |-> 5, SpwanStep |-> 6] }
Zero32 == [lo |-> 0, hi |-> 0]
MapItems ==
  { [ ID |-> [lo |-> 100, hi |-> 0], Unknown1 |-> [lo |-> 1, hi |-> 0],
      Unknown2 |-> [lo |-> 2, hi |-> 0], Unknown3 |-> Zero32, Unknown4 |-> Zero32,
      Unknown5 |-> Zero32, Name |-> NameArray(<<65, 108, 112, 104, 97>>, 32) ],
    [ ID |-> [lo |-> 200, hi |-> 4660], Unknown1 |-> Zero32, Unknown2 |-> Zero32,
      Unknown3 |-> [lo |-> 3, hi |-> 0], Unknown4 |-> [lo |-> 4, hi |-> 0],
      Unknown5 |-> [lo |-> 65535, hi |-> 65535], Name |-> NameArray(<<66, 101, 116, 97>>, 32) ] }
MonsterItems ==
  { [ ID |-> [lo |-> 1, hi |-> 0], Name |-> NameArray(<<79, 114, 99>>, 31),
      Unknown |-> Zeros(61) ],
    [ ID |-> [lo |-> 513, hi |-> 1027], Name |-> NameArray(<<87, 111, 108, 102>>, 31),
      Unknown |-> [k \in 1..61 |-> 2 * k] ] }

\* The lists handed to Write: nil, empty, and every list of up to MaxItems items.
ListsOf(kind) ==
  LET items == IF kind = "spawnlist" THEN SpawnItems
               ELSE IF kind = "mapbin" THEN MapItems
               ELSE MonsterItems
  IN  {NilList} \cup { List(l) : l \in SeqsUpTo(items, MaxItems) }

\* The streams handed to Read after a Write that produced out: out itself,
\* every strict prefix of it, out followed by extra bytes, and (for the
\* count-prefixed codecs) a count field of 0xFFFFFFFF with nothing after it.
StreamsAfter(kind, out) ==
  { Sub(out, 0, k) : k \in 0..Len(out) }
    \cup { out \o x : x \in Extras }
    \cup (IF kind = "spawnlist" THEN {} ELSE {<<255, 255, 255, 255>>})

InitBin ==
  /\ QuestIdle
  /\ HeaderIdle
  /\ CipherIdle
  /\ ConcIdle
  /\ bkind \in {"spawnlist", "mapbin", "monsterbin"}
  /\ bin \in ListsOf(bkind)
  /\ bpc = "write"
  /\ bout = <<>>
  /\ bstream = <<>>
  /\ bpos = 0
  /\ bres = NilList
  /\ berr = ErrNil
  /\ bpanic = FALSE

\* spawnlist.Write(&buf, data)
SpawnListWrite ==
  /\ bkind = "spawnlist"
  /\ bpc = "write"
  /\ bout' = SpawnListOutput(bin.items, Len(bin.items))
  /\ bpc' = "open"
  /\ UNCHANGED <<bkind, bin, bstream, bpos, bres, berr, bpanic>>
  /\ UNCHANGED <<questvars, hvars, cvars, pvars>>

\* mapbin.Write(&buf, data)
MapBinWrite ==
  /\ bkind = "mapbin"
  /\ bpc = "write"
  /\ bout' = MapBinOutput(bin.items)
  /\ bpc' = "open"
  /\ UNCHANGED <<bkind, bin, bstream, bpos, bres, berr, bpanic>>
  /\ UNCHANGED <<questvars, hvars, cvars, pvars>>

\* monsterbin.Write(&buf, data)
MonsterBinWrite ==
  /\ bkind = "monsterbin"
  /\ bpc = "write"
  /\ bout' = MonsterBinOutput(bin.items)
  /\ bpc' = "open"
  /\ UNCHANGED <<bkind, bin, bstream, bpos, bres, berr, bpanic>>
  /\ UNCHANGED <<questvars, hvars, cvars, pvars>>

\* The caller builds the reader: bytes.NewBuffer(...) over a stream.
BinOpen ==
  /\ bkind \in {"spawnlist", "mapbin", "monsterbin"}
  /\ bpc = "open"
  /\ bstream' \in StreamsAfter(bkind, bout)
  /\ bpc' = "read"
  /\ UNCHANGED <<bkind, bin, bout, bpos, bres, berr, bpanic>>
  /\ UNCHANGED <<questvars, hvars, cvars, pvars>>

\* spawnlist.Read(buf)
SpawnListRead ==
  /\ bkind = "spawnlist"
  /\ bpc = "read"
  /\ bres' = SpawnListResult(bstream).val
  /\ berr' = SpawnListResult(bstream).err
  /\ bpos' = SpawnListResult(bstream).pos
  /\ bpc' = "done"
  /\ UNCHANGED <<bkind, bin, bout, bstream, bpanic>>
  /\ UNCHANGED <<questvars, hvars, cvars, pvars>>

\* The effect of a count-prefixed Read whose make had the outcome m and
\* which, the slice made, returns r.
CountedReadEffect(m, r) ==
  /\ bpanic' = (m = "panic")
  /\ bres' = IF m = "panic" THEN NilList ELSE r.val
  /\ berr' = IF m = "panic" THEN ErrNil ELSE r.err
  /\ bpos' = IF m = "panic" THEN 4 ELSE r.pos
  /\ bpc' = "done"

\* mapbin.Read(buf)
MapBinRead ==
  /\ bkind = "mapbin"
  /\ bpc = "read"
  /\ IF Len(bstream) < 4
       THEN CountedReadEffect("made", MapBinResult(bstream))
       ELSE \E m \in MakeOutcomes(LEUint32(Sub(bstream, 0, 4)), MapItemSize) :
              CountedReadEffect(m, MapBinResult(bstream))
  /\ UNCHANGED <<bkind, bin, bout, bstream>>
  /\ UNCHANGED <<questvars, hvars, cvars, pvars>>

\* monsterbin.Read(buf)
MonsterBinRead ==
  /\ bkind = "monsterbin"
  /\ bpc = "read"
  /\ IF Len(bstream) < 4
       THEN CountedReadEffect("made", MonsterBinResult(bstream))
       ELSE \E m \in MakeOutcomes(LEUint32(Sub(bstream, 0, 4)), MonsterItemSize) :
              CountedReadEffect(m, MonsterBinResult(bstream))
  /\ UNCHANGED <<bkind, bin, bout, bstream>>
  /\ UNCHANGED <<questvars, hvars, cvars, pvars>>

NextBin ==
  \/ SpawnListWrite
  \/ MapBinWrite
  \/ MonsterBinWrite
  \/ BinOpen
  \/ SpawnListRead
  \/ MapBinRead
  \/ MonsterBinRead

SpecBin == InitBin /\ [][NextBin]_vars

\* ------------------------------------------------------------------------
\* Protocol helpers: GetBytesFromMsg and ReadMsgFromBytes
\* ------------------------------------------------------------------------
\* Two message types stand for the fixed-layout messages: MsgZa2ZsAccLogout
\* (MsgHeadNoProtocol and Reason byte) and MsgC2SSay (MsgHead, SayType,
\* SayPC [0x15]byte, Words [0x40]byte).  A message is a record of its fields
\* and of its type, kind.  The codec variables carry the call: bin the
\* message, bout the bytes of GetBytesFromMsg, bstream the data handed to
\* ReadMsgFromBytes, bres the message decoded into, berr its error.

\* binary.Size(msg): Size, PcId uint32, Ctrl, Cmd byte, then Reason byte, or
\* Protocol uint16, SayType byte, SayPC and Words.
GetSize(kind) ==
  IF kind = "MsgZa2ZsAccLogout" THEN 4 + 4 + 1 + 1 + 1
  ELSE 4 + 4 + 1 + 1 + 2 + 1 + 21 + 64

\* msg.Size = msg.GetSize()
SetSize(m) == [m EXCEPT !.Size = Uint32Of(GetSize(m.kind))]

NewMsgZa2ZsAccLogout(pcId, reason) ==
  SetSize([ kind |-> "MsgZa2ZsAccLogout", Size |-> Zero32, PcId |-> pcId,
            Ctrl |-> 1, Cmd |-> 226, Reason |-> reason ])

\* binary.Write of the struct, little-endian, the fields in declaration
\* order, embedded structs first.
EncodeMsg(m) ==
  PutLEUint32(m.Size) \o PutLEUint32(m.PcId) \o <<m.Ctrl, m.Cmd>>
    \o (IF m.kind = "MsgZa2ZsAccLogout" THEN <<m.Reason>>
        ELSE PutLEUint16(m.Protocol) \o <<m.SayType>> \o m.SayPC \o m.Words)

\* binary.Read into the struct.  A wrong variant first: PcId taken most
\* significant byte first.
DecodeMsgBigEndian(kind, b) ==
  IF kind = "MsgZa2ZsAccLogout"
    THEN [ kind |-> kind, Size |-> LEUint32(Sub(b, 0, 4)), PcId |-> LEUint32BigEndian(Sub(b, 4, 4)),
           Ctrl |-> b[9], Cmd |-> b[10], Reason |-> b[11] ]
  ELSE [ kind |-> kind, Size |-> LEUint32(Sub(b, 0, 4)), PcId |-> LEUint32BigEndian(Sub(b, 4, 4)),
         Ctrl |-> b[9], Cmd |-> b[10], Protocol |-> LEUint16(Sub(b, 10, 2)),
         SayType |-> b[13], SayPC |-> Sub(b, 13, 21), Words |-> Sub(b, 34, 64) ]
DecodeMsg(kind, b) ==
  IF kind = "MsgZa2ZsAccLogout"
    THEN [ kind |-> kind, Size |-> LEUint32(Sub(b, 0, 4)), PcId |-> LEUint32(Sub(b, 4, 4)),
           Ctrl |-> b[9], Cmd |-> b[10], Reason |-> b[11] ]
  ELSE [ kind |-> kind, Size |-> LEUint32(Sub(b, 0, 4)), PcId |-> LEUint32(Sub(b, 4, 4)),
         Ctrl |-> b[9], Cmd |-> b[10], Protocol |-> LEUint16(Sub(b, 10, 2)),
         SayType |-> b[13], SayPC |-> Sub(b, 13, 21), Words |-> Sub(b, 34, 64) ]

\* GetBytesFromMsg(v): binary.Write into a bytes.Buffer, which never fails.
GetBytesFromMsg(m) == [bytes |-> EncodeMsg(m), err |-> ErrNil]

\* ReadMsgFromBytes(b, v): binary.Read over bytes.NewReader(data) reads
\* binary.Size bytes with io.ReadFull, then decodes them into v; v keeps its
\* value when the read fails.
ReadMsgFromBytes(b, v) ==
  IF Len(b) < GetSize(v.kind)
    THEN [val |-> v, err |-> IF Len(b) = 0 THEN ErrEOF ELSE ErrUnexpectedEOF]
  ELSE [val |-> DecodeMsg(v.kind, Sub(b, 0, GetSize(v.kind))), err |-> ErrNil]

\* The zero value of a message type: var decoded MsgC2SSay.
ZeroMsg(kind) ==
  IF kind = "MsgZa2ZsAccLogout"
    THEN [ kind |-> kind, Size |-> Zero32, PcId |-> Zero32, Ctrl |-> 0, Cmd |-> 0, Reason |-> 0 ]
  ELSE [ kind |-> kind, Size |-> Zero32, PcId |-> Zero32, Ctrl |-> 0, Cmd |-> 0, Protocol |-> 0,
         SayType |-> 0, SayPC |-> Zeros(21), Words |-> Zeros(64) ]

\* The messages of the runs: MsgZa2ZsAccLogout from its constructor, and
\* MsgC2SSay values with the constructor's Ctrl and Cmd, a name and words
\* copied into the zeroed arrays, Size from SetSize or left as the sender
\* wrote it, and Protocol any uint16.
InitMsg ==
  /\ QuestIdle
  /\ HeaderIdle
  /\ CipherIdle
  /\ ConcIdle
  /\ bkind \in {"MsgZa2ZsAccLogout", "MsgC2SSay"}
  /\ LET PcIds == {Zero32, [lo |-> 12345, hi |-> 0], [lo |-> 65535, hi |-> 65535]}
         Says  == { [ kind |-> "MsgC2SSay", Size |-> sz, PcId |-> pc, Ctrl |-> 3, Cmd |-> 255,
                      Protocol |-> pr, SayType |-> st,
                      SayPC |-> NameArray(who, 21), Words |-> NameArray(<<72, 105>>, 64) ] :
                    sz \in {Zero32, [lo |-> 65535, hi |-> 65535]}, pc \in PcIds,
                    pr \in {0, 4660}, st \in {1, 241}, who \in {<<>>, <<65>>} }
     IN  bin \in IF bkind = "MsgZa2ZsAccLogout"
                   THEN {NewMsgZa2ZsAccLogout(pc, r) : pc \in PcIds, r \in {0, 7, 255}}
                 ELSE Says \cup {SetSize(m) : m \in Says}
  /\ bpc = "write"
  /\ bout = <<>>
  /\ bstream = <<>>
  /\ bpos = 0
  /\ bres = ZeroMsg(bkind)
  /\ berr = ErrNil
  /\ bpanic = FALSE

\* data, err := GetBytesFromMsg(msg)
CallGetBytesFromMsg ==
  /\ bpc = "write"
  /\ LET r == GetBytesFromMsg(bin)
     IN  /\ bout' = r.bytes
         /\ berr' = r.err
  /\ bpc' = "read"
  /\ UNCHANGED <<bkind, bin, bstream, bpos, bres, bpanic>>
  /\ UNCHANGED <<questvars, hvars, cvars, pvars>>

\* err := ReadMsgFromBytes(data[:n], &decoded), for the whole of data and for
\* each of its strict prefixes.
CallReadMsgFromBytes ==
  /\ bpc = "read"
  /\ \E n \in 0..Len(bout) :
       LET prefix == Sub(bout, 0, n)
           r      == ReadMsgFromBytes(prefix, bres)
       IN  /\ bstream' = prefix
           /\ bres' = r.val
           /\ berr' = r.err
           /\ bpos' = IF r.err = ErrNil THEN GetSize(bkind) ELSE n
  /\ bpc' = "done"
  /\ UNCHANGED <<bkind, bin, bout, bpanic>>
  /\ UNCHANGED <<questvars, hvars, cvars, pvars>>

NextMsg ==
  \/ CallGetBytesFromMsg
  \/ CallReadMsgFromBytes

SpecMsg == InitMsg /\ [][NextMsg]_vars

\* ------------------------------------------------------------------------
\* Vocabulary of the properties
\* ------------------------------------------------------------------------
\* A slot as the format wants it: a known type, a Name of exactly byte 92
\* bytes, and byte 92 = 0 unless the type bears a name.
SlotValid(o) ==
  /\ ObjectiveType(o) \in ValidTypes
  /\ NameLen(o) = NameLength(o)
  /\ NameLength(o) = 0 \/ ObjectiveType(o) \in NamedTypes

ValidQuestFile(x) == \A i \in 1..NumObjectives : SlotValid(x.Objectives[i])

\* Offset in Write's output of the block of slot i.
RECURSIVE SlotStart(_, _)
SlotStart(x, i) ==
  IF i = 1 THEN HeaderSize
  ELSE SlotStart(x, i - 1) + ObjectiveBlockSize + NameLen(x.Objectives[i - 1])

ReadDone == phase # "write" /\ rpc = "done"

\* The reader held exactly the bytes Write produced, followed by io.EOF: no
\* extra bytes, and Read either returned before it met the end of the stream
\* or met it at the end of the encoded file.
Intact == extra = <<>> /\ (cut = -1 \/ (cut = Len(sent) /\ endKind = ErrEOF))

\* The stream did not end before the end of the encoded file.
NotCutShort == cut = -1 \/ cut >= Len(sent)

\* Slot i breaks a rule and no earlier slot does.
Violates(o) ==
  \/ ObjectiveType(o) \notin ValidTypes
  \/ ObjectiveType(o) \notin NamedTypes /\ NameLength(o) # 0
FirstViolation(x, i) ==
  /\ Violates(x.Objectives[i])
  /\ \A j \in 1..(i - 1) : SlotValid(x.Objectives[j])

SameNames(x, y) ==
  \A i \in 1..NumObjectives : x.Objectives[i].Name.bytes = y.Objectives[i].Name.bytes
SameBlocks(x, y) ==
  \A i \in 1..NumObjectives : x.Objectives[i].Block = y.Objectives[i].Block

\* ------------------------------------------------------------------------
\* Properties
\* ------------------------------------------------------------------------
\* C1: Round-trip identity.  For every valid QuestFile q, Read of exactly the
\* bytes Write(q) produced succeeds and returns q: the same header (every
\* field, padding included), the same 7 blocks, the same name bytes and the
\* same continuation values.
RoundTripIdentity ==
  (ReadDone /\ ValidQuestFile(q) /\ Intact) =>
     /\ rerr = ErrNil
     /\ rval.Header = q.Header
     /\ SameBlocks(rval, q)
     /\ SameNames(rval, q)
     /\ rval.Continuation = q.Continuation

RoundTripIdentityWitness ==
  /\ ReadDone /\ ValidQuestFile(q) /\ Intact
  /\ rerr = ErrNil
  /\ q.Header = HeaderDense
  /\ NameLen(q.Objectives[4]) = MaxNameLen

\* C2: Byte-exact round-trip.  For every valid QuestFile q, encoding what Read
\* returned for the bytes b = Write(q) gives b again: same length, same byte
\* at every position.
ByteExactRoundTrip ==
  (phase = "rewrite" /\ wpc = "done" /\ ValidQuestFile(q) /\ Intact)
     => w = sent

ByteExactRoundTripWitness ==
  /\ phase = "rewrite" /\ wpc = "done" /\ ValidQuestFile(q) /\ Intact
  /\ Len(w) = MinFileSize + 1
  /\ NameLen(q.Objectives[7]) = 1

\* C3: Truncation at every prefix.  For every valid QuestFile q whose encoding
\* has length L and every cut < L, Read of the first cut bytes fails with
\* io.ErrUnexpectedEOF, wherever the cut falls.
TruncationAtEveryPrefix ==
  (ReadDone /\ ValidQuestFile(q) /\ extra = <<>> /\ endKind = ErrEOF
     /\ 0 <= cut /\ cut < Len(sent))
     => rerr = ErrUnexpectedEOF

\* A cut on the boundary between the block of slot 2 and its 2-byte name.
TruncationWitness ==
  /\ ReadDone /\ ValidQuestFile(q) /\ extra = <<>> /\ endKind = ErrEOF
  /\ NameLen(q.Objectives[2]) = MaxNameLen
  /\ cut = SlotStart(q, 2) + ObjectiveBlockSize
  /\ rerr = ErrUnexpectedEOF

\* C4: Type validation.  A file in which some slot has a type byte in 5..254
\* (every other slot being valid) is refused with ErrInvalidObjectiveType; a
\* file whose slots all have a type in {0,1,2,3,4,0xFF}, name length 0 and no
\* name is accepted, whichever slot holds which type.
TypeValidation ==
  /\ (ReadDone /\ NotCutShort
        /\ (\E i \in 1..NumObjectives : ObjectiveType(q.Objectives[i]) \notin ValidTypes)
        /\ (\A i \in 1..NumObjectives :
              ObjectiveType(q.Objectives[i]) \notin ValidTypes \/ SlotValid(q.Objectives[i])))
       => rerr = ErrInvalidObjectiveType
  /\ (ReadDone /\ Intact
        /\ (\A i \in 1..NumObjectives :
              /\ ObjectiveType(q.Objectives[i]) \in ValidTypes
              /\ NameLength(q.Objectives[i]) = 0
              /\ NameLen(q.Objectives[i]) = 0))
       => rerr = ErrNil

TypeValidationWitness ==
  /\ ReadDone /\ NotCutShort
  /\ ObjectiveType(q.Objectives[7]) = 254
  /\ NameLength(q.Objectives[7]) = 0
  /\ rerr = ErrInvalidObjectiveType

\* C5: Name-length validation.  A slot of type KILL, QUESTITEM, BRINGNPC or
\* UNUSED with a non-zero byte 92 (every other slot being valid) makes Read
\* fail with ErrNameLengthForType; a DROP or FIND slot is accepted with any
\* name length, the announced number of name bytes following its block, and
\* Read returns exactly those bytes.
NameLengthValidation ==
  /\ (ReadDone /\ NotCutShort
        /\ (\E i \in 1..NumObjectives :
              /\ ObjectiveType(q.Objectives[i]) \in ValidTypes \ NamedTypes
              /\ NameLength(q.Objectives[i]) # 0)
        /\ (\A i \in 1..NumObjectives :
              \/ SlotValid(q.Objectives[i])
              \/ /\ ObjectiveType(q.Objectives[i]) \in ValidTypes \ NamedTypes
                 /\ NameLength(q.Objectives[i]) # 0))
       => rerr = ErrNameLengthForType
  /\ (ReadDone /\ Intact /\ ValidQuestFile(q)
        /\ (\E i \in 1..NumObjectives : ObjectiveType(q.Objectives[i]) \in NamedTypes))
       => /\ rerr = ErrNil
          /\ \A i \in 1..NumObjectives :
               /\ NameLen(rval.Objectives[i]) = NameLength(q.Objectives[i])
               /\ rval.Objectives[i].Name.bytes = q.Objectives[i].Name.bytes

NameLengthValidationWitness ==
  /\ ReadDone /\ NotCutShort
  /\ ObjectiveType(q.Objectives[3]) = TypeUnused
  /\ NameLength(q.Objectives[3]) = 1
  /\ rerr = ErrNameLengthForType

\* C6: Trailing-byte detection.  Read of a valid encoded file followed by one
\* or more extra bytes fails with ErrTrailingBytes; Read of the file alone
\* succeeds, whether the final probe meets io.EOF or zero bytes and no error.
TrailingByteDetection ==
  /\ (ReadDone /\ ValidQuestFile(q) /\ extra # <<>>) => rerr = ErrTrailingBytes
  /\ (ReadDone /\ ValidQuestFile(q) /\ extra = <<>>
        /\ (cut = -1 \/ (cut = Len(sent) /\ endKind \in {ErrEOF, ErrNil})))
       => rerr = ErrNil

TrailingByteDetectionWitness ==
  /\ ReadDone /\ ValidQuestFile(q)
  /\ Len(extra) = 2
  /\ rsite = "probe"
  /\ rerr = ErrTrailingBytes

\* C7: A probe that returns no byte and an error other than io.EOF, after the
\* header, the 7 objectives and the continuation were read, does not make
\* Read report ErrTrailingBytes.
ProbeFaultNotTrailing ==
  (ReadDone /\ rsite = "probe" /\ endKind = ErrFault) => rerr # ErrTrailingBytes

ProbeFaultWitness ==
  /\ ReadDone /\ rsite = "probe" /\ endKind = ErrFault
  /\ ValidQuestFile(q)
  /\ rpos = Len(sent)

\* C8: A probe that returns no byte and an error other than io.EOF is reported
\* to the caller as an error of its own: Read neither succeeds nor reports
\* ErrTrailingBytes.
ProbeFaultReported ==
  (ReadDone /\ rsite = "probe" /\ endKind = ErrFault)
     => (rerr # ErrNil /\ rerr # ErrTrailingBytes)

\* The error the first rule-breaking slot i calls for: the type error before
\* the name-length error.
SlotError(o) ==
  IF ObjectiveType(o) \notin ValidTypes THEN ErrInvalidObjectiveType ELSE ErrNameLengthForType

FourKinds ==
  {ErrUnexpectedEOF, ErrInvalidObjectiveType, ErrNameLengthForType, ErrTrailingBytes}

\* C9 as stated: every failing decode returns one of the four error kinds, the
\* one whose violating condition comes first in the scan (type before name
\* length within a slot, an earlier slot before a later one, the continuation
\* and what follows it).
ErrorOrderingAsStated ==
  ReadDone =>
    /\ rerr # ErrNil => rerr \in FourKinds
    /\ \A i \in 1..NumObjectives :
         FirstViolation(q, i) =>
           /\ (cut = -1 \/ cut >= SlotStart(q, i) + ObjectiveBlockSize) =>
                rerr = SlotError(q.Objectives[i])
           /\ (0 <= cut /\ cut < SlotStart(q, i) + ObjectiveBlockSize) =>
                rerr = ErrUnexpectedEOF

\* C9, amended: a failing decode returns one of the four error kinds unless
\* the reader itself failed, and then it returns the reader's error.  The
\* first slot that breaks a rule decides the error once its block has been
\* delivered (an invalid type before a bad name length in the same slot),
\* whatever later slots, the continuation or the bytes after it hold; a
\* stream that ends before that block is reported as truncated.
ErrorOrdering ==
  ReadDone =>
    /\ (rerr # ErrNil /\ endKind # ErrFault) => rerr \in FourKinds
    /\ (rerr # ErrNil /\ endKind = ErrFault) => rerr = ErrFault
    /\ \A i \in 1..NumObjectives :
         FirstViolation(q, i) =>
           /\ (cut = -1 \/ cut >= SlotStart(q, i) + ObjectiveBlockSize) =>
                rerr = SlotError(q.Objectives[i])
           /\ (0 <= cut /\ cut < SlotStart(q, i) + ObjectiveBlockSize) =>
                rerr = IF endKind = ErrFault THEN ErrFault ELSE ErrUnexpectedEOF

\* Slot 2 has a bad name length, slot 5 an invalid type and a bad name
\* length, and extra bytes follow the file.
ErrorOrderingWitness ==
  /\ ReadDone
  /\ FirstViolation(q, 2)
  /\ ObjectiveType(q.Objectives[2]) = TypeKILL
  /\ ObjectiveType(q.Objectives[5]) = 5
  /\ extra # <<>>
  /\ rerr = ErrNameLengthForType

\* C10: All-or-nothing.  Whenever Read returns an error, the QuestFile it
\* returns is the zero value: nothing decoded before the failure is in it.
AllOrNothing ==
  (ReadDone /\ rerr # ErrNil) => rval = ZeroQuestFile

\* A failure in the name of slot 6, after the header and six blocks were decoded.
AllOrNothingWitness ==
  /\ ReadDone /\ rerr # ErrNil
  /\ rsite = "name"
  /\ ri = 6
  /\ rq.Header = HeaderDense
  /\ rq # ZeroQuestFile

\* ------------------------------------------------------------------------
\* Properties of Write
\* ------------------------------------------------------------------------
\* The QuestFile the last Write call was given, and that call having
\* returned (with nil: on a sink that did not fail).
WriteInput == IF phase = "rewrite" THEN rval ELSE q
WriteReturned == wpc = "done"
WriteSucceeded == WriteReturned /\ werr = ErrNil

RECURSIVE NameBytesTotal(_, _)
NameBytesTotal(x, i) ==
  IF i = 0 THEN 0 ELSE NameBytesTotal(x, i - 1) + NameLen(x.Objectives[i])

\* C11: Encoded size.  Write emits exactly 780 bytes plus the lengths of the
\* seven Name fields: 780 bytes when no objective has a name, 2565 bytes when
\* all seven have names of 255 bytes, and between 780 and 2565 bytes for every
\* valid file.
EncodedSize ==
  WriteSucceeded =>
    /\ Len(w) = MinFileSize + NameBytesTotal(WriteInput, NumObjectives)
    /\ (\A i \in 1..NumObjectives : NameLen(WriteInput.Objectives[i]) = 0) => Len(w) = 780
    /\ (\A i \in 1..NumObjectives : NameLen(WriteInput.Objectives[i]) = 255) => Len(w) = 2565
    /\ ValidQuestFile(WriteInput) => (780 <= Len(w) /\ Len(w) <= 2565)

\* Write has returned nil for the largest valid file.
EncodedSizeWitness ==
  /\ phase = "write"
  /\ WriteSucceeded
  /\ ValidQuestFile(q)
  /\ \A i \in 1..NumObjectives : NameLen(q.Objectives[i]) = 255
  /\ Len(w) = 2565

\* C12: Write performs no validation.  For any QuestFile (an invalid type
\* byte, a non-zero name length on a type without a name, a Name whose length
\* is not byte 92), Write to a sink that does not fail returns nil, and its
\* output is the 96 header bytes, then for each objective in order its 96
\* block bytes followed by all its Name bytes without a length prefix, then
\* the three continuation values as little-endian uint32.
WriteLayout(x, out) ==
  /\ DecodeHeader(Sub(out, 0, HeaderSize)) = x.Header
  /\ \A i \in 1..NumObjectives :
       /\ Sub(out, SlotStart(x, i), ObjectiveBlockSize) = x.Objectives[i].Block
       /\ Sub(out, SlotStart(x, i) + ObjectiveBlockSize, NameLen(x.Objectives[i]))
            = x.Objectives[i].Name.bytes
  /\ \A k \in 1..3 :
       LEUint32(Sub(out, SlotStart(x, NumObjectives + 1) + 4 * (k - 1), 4)) = x.Continuation[k]
  /\ Len(out) = SlotStart(x, NumObjectives + 1) + ContinuationSize

WriteNoValidation ==
  /\ werr \in {ErrNil, ErrShortWrite}
  /\ (WriteReturned /\ failedAt = 0) =>
       /\ werr = ErrNil
       /\ WriteLayout(WriteInput, w)
       /\ w = WriteOutput(WriteInput)

\* Write has returned nil for a file whose slot 2 has an unknown type byte
\* and whose slot 5 is a KILL objective with a name.
WriteNoValidationWitness ==
  /\ phase = "write"
  /\ WriteSucceeded
  /\ ObjectiveType(q.Objectives[2]) = 5
  /\ ObjectiveType(q.Objectives[5]) = TypeKILL
  /\ NameLength(q.Objectives[5]) = 1
  /\ WriteLayout(q, w)

\* Write has returned nil for a file whose Name is longer than byte 92 says.
WriteNameMismatchWitness ==
  /\ phase = "write"
  /\ WriteSucceeded
  /\ \E i \in 1..NumObjectives : NameLen(q.Objectives[i]) > NameLength(q.Objectives[i])
  /\ WriteLayout(q, w)

\* C13: Write propagates sink failures immediately.  If the k-th write call
\* on the sink returns an error, Write returns that error and issues no
\* further write call.
SinkFailurePropagates ==
  failedAt > 0 =>
    /\ WriteReturned
    /\ werr = ErrShortWrite
    /\ wcalls = failedAt

\* In a file whose slot 3 alone has a name, the sink failed the fifth write
\* call (the name of slot 3, after the header and three blocks) having taken
\* one byte of it.
SinkFailureWitness ==
  /\ failedAt = 5
  /\ wcalls = 5
  /\ werr = ErrShortWrite
  /\ NameLen(q.Objectives[3]) > 0
  /\ Len(w) = HeaderSize + 3 * ObjectiveBlockSize + 1

\* ------------------------------------------------------------------------
\* Properties of the QuestHeader accessors
\* ------------------------------------------------------------------------
\* The header x with the last two bytes of both ID slots replaced.
WithPadding(x, p) ==
  [x EXCEPT !.QuestIDRaw = Sub(@, 0, 2) \o p, !.GivenNPCRaw = Sub(@, 0, 2) \o p]
PaddingValues == {<<0, 0>>, <<255, 255>>, <<171, 205>>}

\* C14: ID accessors.  QuestID() and GivenNPCID() return the little-endian
\* 16-bit value of the first two bytes of their four-byte slot, whatever the
\* last two bytes are; QuestID() after SetQuestID(v) returns v, and
\* GivenNPCID() after SetGivenNPCID(v) returns v.
IDAccessors ==
  /\ QuestID(h) = h.QuestIDRaw[1] + 256 * h.QuestIDRaw[2]
  /\ GivenNPCID(h) = h.GivenNPCRaw[1] + 256 * h.GivenNPCRaw[2]
  /\ \A p \in PaddingValues :
       /\ QuestID(WithPadding(h, p)) = QuestID(h)
       /\ GivenNPCID(WithPadding(h, p)) = GivenNPCID(h)
  /\ hcall.op = "SetQuestID" => QuestID(h) = hcall.v
  /\ hcall.op = "SetGivenNPCID" => GivenNPCID(h) = hcall.v

\* SetQuestID(0x1234) was called on a header whose slot ends in AB CD, and
\* QuestID() returns 0x1234.
IDAccessorsWitness ==
  /\ hcall = [op |-> "SetQuestID", v |-> 4660]
  /\ Sub(h.QuestIDRaw, 2, 2) = <<171, 205>>
  /\ QuestID(hprev) # 4660
  /\ QuestID(h) = 4660

\* The header x without the four bytes the setters may write.
OutsideIDs(x) ==
  [x EXCEPT !.QuestIDRaw = <<0, 0>> \o Sub(@, 2, 2), !.GivenNPCRaw = <<0, 0>> \o Sub(@, 2, 2)]

\* C15: The setters preserve padding.  SetQuestID changes only bytes 0 and 1
\* of QuestIDRaw and SetGivenNPCID only bytes 0 and 1 of GivenNPCRaw; every
\* other byte and field of the header keeps its value, for any prior state
\* and any sequence of setter calls.
SettersPreservePadding ==
  /\ hcall.op = "SetQuestID" =>
       /\ OutsideIDs(h) = OutsideIDs(hprev)
       /\ h.GivenNPCRaw = hprev.GivenNPCRaw
  /\ hcall.op = "SetGivenNPCID" =>
       /\ OutsideIDs(h) = OutsideIDs(hprev)
       /\ h.QuestIDRaw = hprev.QuestIDRaw
  /\ \E x \in AccessorHeaders : OutsideIDs(h) = OutsideIDs(x)

\* After both setters were called on the dense header: both IDs changed,
\* the last call was SetQuestID, and the padding of both slots is non-zero.
SettersPreservePaddingWitness ==
  /\ hcall.op = "SetQuestID"
  /\ OutsideIDs(h) = OutsideIDs(HeaderDense)
  /\ QuestID(h) = 65535
  /\ QuestID(hprev) = 52 + 256 * 18
  /\ GivenNPCID(h) = 256
  /\ Sub(h.QuestIDRaw, 2, 2) = <<171, 205>>
  /\ Sub(h.GivenNPCRaw, 2, 2) = <<239, 190>>

\* ------------------------------------------------------------------------
\* Properties of Read: what its verdict depends on
\* ------------------------------------------------------------------------
\* Byte off of s (0 where s has no such byte).
ByteAt(s, off) == IF off < Len(s) THEN s[off + 1] ELSE 0

\* Offset of the block of slot i in the stream s, by the name-length bytes
\* of s itself.
RECURSIVE ScanOffset(_, _)
ScanOffset(s, i) ==
  IF i = 1 THEN HeaderSize
  ELSE ScanOffset(s, i - 1) + ObjectiveBlockSize
         + ByteAt(s, ScanOffset(s, i - 1) + NameLenOffset)

\* The shape of a stream: its length, its seven type bytes and its seven
\* name-length bytes.
StreamLength == IF cut >= 0 THEN cut ELSE Len(Stream)
StreamTypes == [i \in 1..NumObjectives |-> ByteAt(Stream, ScanOffset(Stream, i))]
StreamNameLengths ==
  [i \in 1..NumObjectives |-> ByteAt(Stream, ScanOffset(Stream, i) + NameLenOffset)]

\* The verdict a decoder gives that looks at the shape and at nothing else.
RECURSIVE ShapeVerdictFrom(_, _, _, _, _)
ShapeVerdictFrom(L, T, N, i, pos) ==
  IF i > NumObjectives
    THEN IF L < pos + ContinuationSize THEN ErrUnexpectedEOF
         ELSE IF L > pos + ContinuationSize THEN ErrTrailingBytes
         ELSE ErrNil
  ELSE IF L < pos + ObjectiveBlockSize THEN ErrUnexpectedEOF
  ELSE IF T[i] \notin ValidTypes THEN ErrInvalidObjectiveType
  ELSE IF T[i] \notin NamedTypes /\ N[i] # 0 THEN ErrNameLengthForType
  ELSE IF L < pos + ObjectiveBlockSize + N[i] THEN ErrUnexpectedEOF
  ELSE ShapeVerdictFrom(L, T, N, i + 1, pos + ObjectiveBlockSize + N[i])
ShapeVerdict(L, T, N) ==
  IF L < HeaderSize THEN ErrUnexpectedEOF ELSE ShapeVerdictFrom(L, T, N, 1, HeaderSize)

\* C16: Read performs no semantic validation.  Whether Read succeeds, and
\* with which error it fails, depends only on the length of the stream, the
\* seven objective type bytes and the seven name-length bytes: two streams
\* that agree in these get the same verdict, whatever their other bytes are
\* (the reader raising no error of its own).
NoSemanticValidation ==
  (ReadDone /\ endKind # ErrFault) =>
    rerr = ShapeVerdict(StreamLength, StreamTypes, StreamNameLengths)

\* Read accepted a file whose header has MinLevel above MaxLevel, a
\* sentinel-valued EXP and a KILL objective in every slot, as it accepts the
\* minimal file of the same shape.
NoSemanticValidationWitness ==
  /\ ReadDone
  /\ rerr = ErrNil
  /\ endKind = ErrEOF
  /\ sent # EncodeHeader(HeaderMinimal) \o Sub(sent, HeaderSize, Len(sent) - HeaderSize)
  /\ q.Header.MinLevel > q.Header.MaxLevel
  /\ StreamLength = MinFileSize
  /\ \A i \in 1..NumObjectives : StreamTypes[i] = TypeKILL /\ StreamNameLengths[i] = 0

\* ------------------------------------------------------------------------
\* Properties of concurrent decodes
\* ------------------------------------------------------------------------
\* The Read call p run to its end with no other call beside it.
RECURSIVE RunAlone(_)
RunAlone(p) ==
  IF p.pc = "done" THEN p
  ELSE RunAlone(CASE p.pc = "header" -> StepHeader(<<p>>, 1)
                  [] p.pc = "block"  -> StepObjective(<<p>>, 1)
                  [] p.pc = "name"   -> StepName(<<p>>, 1)
                  [] p.pc = "cont"   -> StepContinuation(<<p>>, 1)
                  [] p.pc = "probe"  -> StepProbe(<<p>>, 1))

\* C17: Concurrent decodes are independent.  When several Read calls run in
\* parallel, each on a reader of its own (even over the same underlying
\* bytes), every interleaving of their steps gives every call the result it
\* gets when run alone; the shared bytes are never written.
ConcurrentReadsIndependent ==
  \A n \in DOMAIN procs :
    /\ procs[n].pc = "done" =>
         /\ procs[n].val = RunAlone(ReadStart).val
         /\ procs[n].err = RunAlone(ReadStart).err
         /\ procs[n].pos = RunAlone(ReadStart).pos
    /\ procs[n].pos <= Len(raw)

\* The first call has returned the decoded file with the name of slot 3
\* while the second call is still about to read that name.
ConcurrentReadsWitness ==
  /\ procs # <<>>
  /\ procs[1].pc = "done"
  /\ procs[1].err = ErrNil
  /\ NameLen(procs[1].val.Objectives[3]) = MaxNameLen
  /\ procs[2].pc = "name"
  /\ procs[2].i = 3

\* ------------------------------------------------------------------------
\* Properties of the 562 cipher
\* ------------------------------------------------------------------------
\* The last two calls were op1 and then op2, with equal dynamic keys.
SameKeyPair(op1, op2) ==
  /\ Len(ops) = 2
  /\ ops[1][1] = op1
  /\ ops[2][1] = op2
  /\ keys[ops[1][2]] = keys[ops[2][2]]

\* C18: Cipher round trip.  For any byte slice d of any length and any
\* dynamic key, EncryptInPlace followed by DecryptInPlace with the same key
\* restores d, and so does DecryptInPlace followed by EncryptInPlace.
CipherRoundTrip ==
  /\ SameKeyPair("Encrypt", "Decrypt") => data = plain
  /\ SameKeyPair("Decrypt", "Encrypt") => data = plain

\* A slice of two full blocks and a partial one was encrypted and then
\* decrypted with key 0x1234 by two objects, and is as it was.
CipherRoundTripWitness ==
  /\ ops = << <<"Encrypt", "A">>, <<"Decrypt", "B">> >>
  /\ keys["A"] = 4660
  /\ keys["B"] = 4660
  /\ Len(plain) = MaxDataLen
  /\ EncryptInPlace(plain, 4660).data # plain
  /\ data = plain

\* First byte (0-based) of the trailing partial block of a slice of n bytes.
PartialStart(n) == IF n < offset THEN n ELSE offset + 4 * ((n - offset) \div 4)

\* C19: Cipher frame.  EncryptInPlace and DecryptInPlace leave the length of
\* the slice unchanged, never modify bytes 0..11, never modify the trailing
\* bytes that do not fill a four-byte block, and leave a slice shorter than
\* 16 bytes (an empty or nil one included) entirely unchanged, without a
\* panic.
CipherFrame ==
  /\ ~panicked
  /\ Len(data) = Len(plain)
  /\ \A k \in 1..Len(plain) :
       (k <= offset \/ k > PartialStart(Len(plain))) => data[k] = plain[k]
  /\ Len(plain) < 16 => data = plain

\* A slice of 19 bytes after one call: bytes 12..15 changed, the first
\* twelve and the last three as before.
CipherFrameWitness ==
  /\ Len(ops) = 1
  /\ Len(plain) = 19
  /\ \A k \in 13..16 : data[k] # plain[k]
  /\ Sub(data, 0, 12) = Sub(plain, 0, 12)
  /\ Sub(data, 16, 3) = Sub(plain, 16, 3)

\* A slice of 15 bytes after two calls with different keys, unchanged.
CipherShortWitness ==
  /\ Len(ops) = 2
  /\ Len(plain) = 15
  /\ keys["A"] # keys["B"]
  /\ data = plain

\* C20: Cipher key sensitivity.  For any two different dynamic keys and any
\* plaintext with at least one full block (length at least 16), encrypting
\* under the two keys gives different ciphertexts, and encrypting with key A
\* and decrypting with key B does not restore the plaintext.
KeySensitivity ==
  (Len(plain) >= 16 /\ keys["A"] # keys["B"]) =>
    /\ ops = << <<"Encrypt", "A">> >> => data # EncryptInPlace(plain, keys["B"]).data
    /\ ops = << <<"Encrypt", "A">>, <<"Decrypt", "B">> >> => data # plain

\* What the cipher does guarantee: the same two statements for keys that
\* differ in their low 16 bits.
KeySensitivityLow16 ==
  (Len(plain) >= 16 /\ keys["A"] % 65536 # keys["B"] % 65536) =>
    /\ ops = << <<"Encrypt", "A">> >> => data # EncryptInPlace(plain, keys["B"]).data
    /\ ops = << <<"Encrypt", "A">>, <<"Decrypt", "B">> >> => data # plain

\* ------------------------------------------------------------------------
\* Properties of the list codecs
\* ------------------------------------------------------------------------
BinDone == bpc = "done" /\ bkind \in {"spawnlist", "mapbin", "monsterbin"}

\* C21: spawnlist.Read decodes the whole stream as 8-byte records.  A stream
\* of 8n bytes yields exactly n items in stream order and a nil error (n = 0:
\* an empty list that is not nil); a stream whose length is not a multiple of
\* 8 yields a nil list and io.ErrUnexpectedEOF; Read(Write(list)) returns the
\* items of list in their order, for every list.
SpawnListDecoding ==
  (BinDone /\ bkind = "spawnlist") =>
    /\ Len(bstream) % 8 = 0 =>
         /\ berr = ErrNil
         /\ bres.set
         /\ Len(bres.items) = Len(bstream) \div 8
         /\ \A i \in 1..Len(bres.items) :
              EncodeSpawnItem(bres.items[i]) = Sub(bstream, 8 * (i - 1), 8)
    /\ Len(bstream) % 8 # 0 => (bres = NilList /\ berr = ErrUnexpectedEOF)
    /\ bstream = bout => (berr = ErrNil /\ bres.items = bin.items)

\* Read returned the two items that were written, the first with Id 258.
SpawnListDecodingWitness ==
  /\ BinDone
  /\ bkind = "spawnlist"
  /\ bstream = bout
  /\ Len(bin.items) = 2
  /\ bin.items[1].Id = 258
  /\ bin.items[2].Id = 100
  /\ bres.items = bin.items

\* Read was given one item and half of a second one.
SpawnListTruncatedWitness ==
  /\ BinDone
  /\ bkind = "spawnlist"
  /\ Len(bstream) = 12
  /\ berr = ErrUnexpectedEOF

\* The stream's count field announces more complete items than follow it.
AnnouncesMore(b, size) ==
  /\ Len(b) >= 4
  /\ LET c == LEUint32(Sub(b, 0, 4))
     IN  c.hi > 0 \/ c.lo > (Len(b) - 4) \div size
SizeOf(kind) == IF kind = "mapbin" THEN MapItemSize ELSE MonsterItemSize
RECURSIVE ItemsEncoded(_, _, _)
ItemsEncoded(kind, items, n) ==
  IF n = 0 THEN <<>>
  ELSE ItemsEncoded(kind, items, n - 1)
         \o (IF kind = "mapbin" THEN EncodeMapItem(items[n]) ELSE EncodeMonsterItem(items[n]))

\* What Write emitted is the count followed by the items, and Read of it
\* returns the items.
CountPrefixedOutput ==
  /\ bpc # "write" =>
       /\ Sub(bout, 0, 4) = <<Len(bin.items) % 256, 0, 0, 0>>
       /\ Sub(bout, 4, Len(bout) - 4) = ItemsEncoded(bkind, bin.items, Len(bin.items))
       /\ bin.items = <<>> => bout = <<0, 0, 0, 0>>
  /\ (bpc = "done" /\ bstream = bout) => (~bpanic /\ berr = ErrNil /\ bres.items = bin.items)

\* C22: Count-prefixed bin codecs (mapbin, monsterbin).  Write emits a
\* little-endian uint32 equal to len(data) followed by each item in order (nil
\* or empty data: exactly the four bytes 00 00 00 00); Read of that output
\* returns the same items in the same order; and Read of a stream whose count
\* field announces more complete items than the stream contains returns a nil
\* slice and a non-nil error.
CountPrefixed ==
  bkind \in {"mapbin", "monsterbin"} =>
    /\ CountPrefixedOutput
    /\ (bpc = "done" /\ AnnouncesMore(bstream, SizeOf(bkind))) =>
         (~bpanic /\ bres = NilList /\ berr # ErrNil)

\* What holds of the code: the same, for counts whose items fit a 32-bit
\* address space.
CountPrefixedSmall ==
  bkind \in {"mapbin", "monsterbin"} =>
    /\ CountPrefixedOutput
    /\ (bpc = "done" /\ AnnouncesMore(bstream, SizeOf(bkind))
          /\ LEUint32(Sub(bstream, 0, 4)).hi * SizeOf(bkind) < 65536) =>
         (~bpanic /\ bres = NilList /\ berr # ErrNil)

\* A count of 1 followed by 40 of the 56 bytes of a map item.
CountPrefixedTruncatedWitness ==
  /\ bkind = "mapbin"
  /\ bpc = "done"
  /\ Len(bin.items) = 1
  /\ Len(bstream) = 44
  /\ bres = NilList
  /\ berr = ErrUnexpectedEOF

\* C30: mapbin.Read and monsterbin.Read do not check for the end of the
\* stream.  For every list d and every sequence x of extra bytes, Read of
\* Write(d) followed by x succeeds, returns exactly the items of d, and
\* leaves x unread in the stream.
NoEndOfStreamCheck ==
  (bkind \in {"mapbin", "monsterbin"} /\ bpc = "done"
     /\ Len(bstream) >= Len(bout) /\ Sub(bstream, 0, Len(bout)) = bout) =>
    /\ ~bpanic
    /\ berr = ErrNil
    /\ bres.items = bin.items
    /\ bpos = Len(bout)
    /\ Sub(bstream, bpos, Len(bstream) - bpos) \in Extras

\* Two monster items were written, two bytes follow them, and Read returned
\* the two items with the two bytes unread.
NoEndOfStreamCheckWitness ==
  /\ bkind = "monsterbin"
  /\ bpc = "done"
  /\ Len(bin.items) = 2
  /\ Len(bstream) = Len(bout) + 2
  /\ berr = ErrNil
  /\ bres.items = bin.items
  /\ bpos = Len(bstream) - 2

\* C23: Protocol helper round-trip.  For every fixed-layout message value m,
\* ReadMsgFromBytes(GetBytesFromMsg(m)) reconstructs a value equal to m;
\* GetBytesFromMsg(m) has exactly the fixed encoded size of m's type (equal
\* to the Size header field set by the New* constructor); and
\* ReadMsgFromBytes on any strict prefix of that encoding returns an error.
MsgRoundTrip ==
  /\ bpc # "write" =>
       /\ berr = ErrNil \/ bpc = "done"
       /\ Len(bout) = GetSize(bkind)
       /\ bin = SetSize(bin) => LEUint32(Sub(bout, 0, 4)) = Uint32Of(Len(bout))
       /\ bin = SetSize(bin) => bin.Size.hi = 0 /\ bin.Size.lo = Len(bout)
  /\ (bpc = "done" /\ bstream = bout) => (berr = ErrNil /\ bres = bin)
  /\ (bpc = "done" /\ Len(bstream) < Len(bout)) => berr # ErrNil

\* A MsgC2SSay with a PcId above 65535 and a Size field that is not the
\* encoded size came back whole from its 98 bytes.
MsgRoundTripWitness ==
  /\ bpc = "done"
  /\ bkind = "MsgC2SSay"
  /\ bin.PcId.hi = 65535
  /\ bin.Size.hi = 65535
  /\ Len(bstream) = 98
  /\ berr = ErrNil
  /\ bres = bin

\* A constructed MsgZa2ZsAccLogout cut one byte short was refused.
MsgPrefixWitness ==
  /\ bpc = "done"
  /\ bkind = "MsgZa2ZsAccLogout"
  /\ bin.Size = Uint32Of(11)
  /\ Len(bstream) = 10
  /\ berr = ErrUnexpectedEOF

\* ------------------------------------------------------------------------
\* Properties of Read: where it stops and what it hands back
\* ------------------------------------------------------------------------
\* C24: Fail-fast validation in Read.  The two checks of slot i run
\* immediately after slot i's 96-byte block is read and before any further
\* read: on a failing check Read has consumed exactly the 96 header bytes,
\* the blocks and names of the slots before i and the 96 bytes of slot i; it
\* reads no name bytes for slot i and no later slot, and returns the
\* validation error even if the stream ends right after that block (Read has
\* not met the end of the stream: cut is still -1).
FailFastValidation ==
  /\ (phase = "read" /\ rpc = "name") => ~Violates(rq.Objectives[ri])
  /\ (ReadDone /\ rsite = "check") =>
       /\ Violates(rq.Objectives[ri])
       /\ \A j \in 1..(ri - 1) : ~Violates(rq.Objectives[j])
       /\ rerr \in {ErrInvalidObjectiveType, ErrNameLengthForType}
       /\ rval = ZeroQuestFile
       /\ rpos = ScanOffset(Stream, ri) + ObjectiveBlockSize
       /\ rq.Objectives[ri].Block = Sub(Stream, ScanOffset(Stream, ri), ObjectiveBlockSize)
       /\ rq.Objectives[ri].Name = NilSlice
       /\ \A j \in (ri + 1)..NumObjectives : rq.Objectives[j] = ZeroQuestFile.Objectives[j]
       /\ rq.Continuation = ZeroQuestFile.Continuation
       /\ cut = -1
       /\ endKind = "open"

\* Slot 7 announces a name its type does not bear, after a slot whose name
\* was read: Read stopped at the end of the block of slot 7.
FailFastValidationWitness ==
  /\ ReadDone
  /\ rsite = "check"
  /\ ri = NumObjectives
  /\ rerr = ErrNameLengthForType
  /\ rpos > HeaderSize + NumObjectives * ObjectiveBlockSize
  /\ Len(Stream) > rpos
  /\ cut = -1

\* C25: Invariant of a successful Read value.  Whenever Read returns a nil
\* error, each of the 7 objectives of the returned QuestFile has a type byte
\* in {0, 1, 2, 3, 4, 0xFF}, len(Name) equal to byte 92 of its block (Name
\* absent exactly when that byte is 0), and a non-empty Name only when its
\* type is DROP or FIND.
SuccessfulValue ==
  (ReadDone /\ rerr = ErrNil) =>
    \A i \in 1..NumObjectives :
      LET o == rval.Objectives[i]
      IN  /\ ObjectiveType(o) \in {TypeKILL, TypeQUESTITEM, TypeBRINGNPC, TypeDROP, TypeFIND, TypeUnused}
          /\ Len(o.Name.bytes) = o.Block[NameLenOffset + 1]
          /\ o.Name.set <=> o.Block[NameLenOffset + 1] # 0
          /\ Len(o.Name.bytes) > 0 => ObjectiveType(o) \in {TypeDROP, TypeFIND}

\* Read succeeded on a file with slots of type KILL without a name and a
\* slot with a name of MaxNameLen bytes.
SuccessfulValueWitness ==
  /\ ReadDone
  /\ rerr = ErrNil
  /\ \E i \in 1..NumObjectives :
       /\ ObjectiveType(rval.Objectives[i]) = TypeKILL
       /\ ~rval.Objectives[i].Name.set
  /\ \E i \in 1..NumObjectives :
       /\ ObjectiveType(rval.Objectives[i]) \in {TypeDROP, TypeFIND}
       /\ rval.Objectives[i].Name.set
       /\ Len(rval.Objectives[i].Name.bytes) = MaxNameLen

\* Read succeeded on a file with an unused slot.
SuccessfulValueUnusedWitness ==
  /\ ReadDone
  /\ rerr = ErrNil
  /\ \E i \in 1..NumObjectives :
       /\ ObjectiveType(rval.Objectives[i]) = TypeUnused
       /\ ~rval.Objectives[i].Name.set

\* C26: For every byte sequence b on which Read succeeds, whether or not
\* Write produced it, Write of the value Read returned gives b again, byte
\* for byte: b is the stream up to where Read met its end.
AcceptedBytesReproduced ==
  (phase = "rewrite" /\ WriteSucceeded) =>
    /\ Len(w) = rpos
    /\ w = Sub(Stream, 0, rpos)

\* The stream Read accepted is no output of Write(q): q's last slot carries
\* a Name longer than its byte 92 announces, and the stream ended before the
\* last byte Write(q) had produced.
AcceptedBytesReproducedWitness ==
  /\ phase = "rewrite"
  /\ WriteSucceeded
  /\ ~ValidQuestFile(q)
  /\ 0 <= cut
  /\ cut < Len(sent)
  /\ w = Sub(sent, 0, cut)

\* The stream Read accepted came from a QuestFile with a non-nil empty Name:
\* Read returned a nil Name and the bytes are the same.
AcceptedBytesEmptyNameWitness ==
  /\ phase = "rewrite"
  /\ WriteSucceeded
  /\ rval # q
  /\ w = sent

\* The bytes Read has consumed: never more than a header, seven blocks with
\* names of 255 bytes, the continuation and the probed byte; after a
\* successful return, the 780 fixed bytes and the seven announced names.
RECURSIVE SumTo(_, _)
SumTo(f, n) == IF n = 0 THEN 0 ELSE SumTo(f, n - 1) + f[n]
ConsumptionBound ==
  /\ rpos <= MinFileSize + NumObjectives * 255 + 1
  /\ (ReadDone /\ rerr = ErrNil) =>
       rpos = MinFileSize + SumTo(StreamNameLengths, NumObjectives)

\* C27: Read terminates with bounded consumption.  Every Read call returns,
\* having consumed at most 780 + 7*255 + 1 = 2566 bytes whatever the stream
\* holds; on success it has consumed exactly 780 + (sum of the 7 name-length
\* bytes).
BoundedConsumption ==
  /\ []ConsumptionBound
  /\ (phase = "read" /\ rpc # "done") ~> ReadDone

\* Seven names of 255 bytes and a byte after the continuation: Read returned
\* ErrTrailingBytes with 2566 bytes consumed.
BoundedConsumptionWitness ==
  /\ ReadDone
  /\ rerr = ErrTrailingBytes
  /\ rpos = MinFileSize + NumObjectives * 255 + 1
  /\ rpos = 2566

\* Read succeeded on the largest file: 2565 bytes consumed.
BoundedConsumptionLargestWitness ==
  /\ ReadDone
  /\ rerr = ErrNil
  /\ rpos = MinFileSize + NumObjectives * 255

\* ------------------------------------------------------------------------
\* Properties of Write: what a failing sink is left with
\* ------------------------------------------------------------------------
\* C28: Partial output of a failed Write.  When the sink fails during Write,
\* the bytes the sink has accepted are a prefix of what Write produces for the
\* same QuestFile on a sink that does not fail: the header, then for slots 1
\* to 7 the block followed by the name, then the continuation.
PartialOutputPrefix ==
  (phase = "write" /\ failedAt > 0) =>
    /\ WriteReturned
    /\ Len(w) <= Len(WriteOutput(q))
    /\ w = Sub(WriteOutput(q), 0, Len(w))

\* The sink failed the last write call, the continuation, having taken one
\* of its twelve bytes, in a file with a name.
PartialOutputPrefixWitness ==
  /\ phase = "write"
  /\ failedAt > NumObjectives + 2
  /\ failedAt = wcalls
  /\ werr = ErrShortWrite
  /\ \E i \in 1..NumObjectives : NameLen(q.Objectives[i]) > 0
  /\ Len(w) = Len(WriteOutput(q)) - ContinuationSize + 1

\* ------------------------------------------------------------------------
\* Properties of the two implementations of Read
\* ------------------------------------------------------------------------
\* The reader as Read met it: the bytes it delivered before its end, and how
\* it ended (a reader whose end Read did not meet ends with io.EOF).
Delivered == Sub(Stream, 0, StreamLength)
ReaderEnd == IF endKind = "open" THEN ErrEOF ELSE endKind
DeliveredType(i) == ByteAt(Delivered, ScanOffset(Delivered, i))
EarlierResult == EarlierRead(Stream, StreamLength, ReaderEnd)

\* C29: The two Read implementations in the file (lines 88-151 and 314-394)
\* return the same value and the same error for every input stream that has
\* no objective slot of type 0xFF and on which the final one-byte probe
\* returns no error other than io.EOF; they differ only on 0xFF slots and on
\* probe faults.
ReadVersionsAgree ==
  (/\ ReadDone
   /\ \A i \in 1..NumObjectives : DeliveredType(i) # TypeUnused
   /\ ~(rsite = "probe" /\ endKind = ErrFault))
    => EarlierResult = [val |-> rval, err |-> rerr]

\* Both implementations returned the same decoded file for a stream with a
\* named slot and a slot of type BRINGNPC.
ReadVersionsAgreeWitness ==
  /\ ReadDone
  /\ \A i \in 1..NumObjectives : DeliveredType(i) # TypeUnused
  /\ rsite = "probe"
  /\ endKind = ErrEOF
  /\ rerr = ErrNil
  /\ \E i \in 1..NumObjectives : NameLen(rval.Objectives[i]) = MaxNameLen
  /\ EarlierResult = [val |-> rval, err |-> ErrNil]

\* Both implementations refused a slot of type BRINGNPC that announces a
\* name, with the same error.
ReadVersionsRefuseWitness ==
  /\ ReadDone
  /\ rsite = "check"
  /\ rerr = ErrNameLengthForType
  /\ ObjectiveType(rq.Objectives[ri]) = TypeBRINGNPC
  /\ EarlierResult = [val |-> ZeroQuestFile, err |-> ErrNameLengthForType]

\* The two cases in which the implementations differ: a slot of type 0xFF,
\* which the earlier one refuses, and a fault met by the probe, which the
\* earlier one reports as trailing bytes.
ReadVersionsUnusedWitness ==
  /\ ReadDone
  /\ rerr = ErrNil
  /\ \E i \in 1..NumObjectives : DeliveredType(i) = TypeUnused
  /\ EarlierResult = [val |-> ZeroQuestFile, err |-> ErrInvalidObjectiveType]
ReadVersionsProbeFaultWitness ==
  /\ ReadDone
  /\ rsite = "probe"
  /\ endKind = ErrFault
  /\ rerr = ErrNil
  /\ EarlierResult = [val |-> ZeroQuestFile, err |-> ErrTrailingBytes]

====
